---- MODULE Spec2Model ----
(***************************************************************************)
(* Model of the CloudSweep orchestrators:                                  *)
(*   - CleanupResourcesUseCase.Execute                                     *)
(*       (internal/application/usecase/cleanup_resources.go)               *)
(*   - ScanResourcesUseCase.Execute and the Scan / Resource entities       *)
(*       (internal/application/usecase scan use case, entity/scan.go)      *)
(*   - the HTTP handlers ScanHandler.Create and ResourceHandler.Delete     *)
(*       and the worker's task handlers (infrastructure/queue)             *)
(*   - the policy condition engine of the design, which the source         *)
(*       declares (entity.PolicyConditions) but does not implement         *)
(* The repositories, the factories, the Cleaner and the Scanner are        *)
(* interfaces in the source; every call to them is a nondeterministic      *)
(* choice over the outcomes their signatures allow.                        *)
(*                                                                         *)
(* Strings built with fmt.Sprintf are sequences of tokens, so that a       *)
(* prefix, the wrapped error text and an exact message are different       *)
(* values.  A Go error is its message; NoError is the nil error.  A Go     *)
(* pointer that may be nil is a sequence of length at most one.            *)
(***************************************************************************)
EXTENDS Integers, Sequences, FiniteSets, TLC

\* ------------------------------------------------------------------------
\* Bounds
\* ------------------------------------------------------------------------
\* longest resourceIds list of a cleanup request
MaxIds == 2
\* most resources a discovery returns
MaxDiscovered == 2

\* ------------------------------------------------------------------------
\* Entity vocabulary (entity package)
\* ------------------------------------------------------------------------
CloudProviderAWS == "aws"
CloudProviderGCP == "gcp"

ResourceStatusActive == "active"
ResourceStatusUnused == "unused"
ResourceStatusDeleted == "deleted"

ScanStatusPending == "pending"
ScanStatusRunning == "running"
ScanStatusCompleted == "completed"
ScanStatusFailed == "failed"
ScanStatusCancelled == "cancelled"

PolicyActionNotify == "notify"
PolicyActionTag == "tag"
PolicyActionStop == "stop"
PolicyActionDelete == "delete"

\* the zero value of a Go string field
EmptyString == <<>>
\* the nil error
NoError == <<>>
\* the nil pointer
Nil == <<>>

\* ------------------------------------------------------------------------
\* Test inventory: the rows of the resource table before any invocation.
\* r1 and r2 share a provider, r3 is alone in its group and belongs to
\* another organization; "r0" is an id that has no row.
\* ------------------------------------------------------------------------
Resource(id, org, provider, native, status, cost, carbon) ==
    [ID |-> id, OrganizationID |-> org, Provider |-> provider, Type |-> "ec2_instance",
     ResourceID |-> native, Region |-> "us-east-1", Name |-> <<"web", "-", "1">>,
     Status |-> status, Tags |-> {}, MonthlyCost |-> cost, CarbonFootprint |-> carbon,
     LastSeenAt |-> 0]

Inventory ==
    [r \in {"r1", "r2", "r3"} |->
        CASE r = "r1" -> Resource("r1", "o1", CloudProviderAWS, "i-1", ResourceStatusUnused, 2, 1)
          [] r = "r2" -> Resource("r2", "o1", CloudProviderAWS, "i-2", ResourceStatusActive, 1, 2)
          [] r = "r3" -> Resource("r3", "o2", CloudProviderGCP, "d-3", ResourceStatusUnused, 3, 1)]

RequestableIds == {"r0"} \cup DOMAIN Inventory

\* action strings a cleanup task can carry; "archive" stands for any value
\* outside the PolicyAction constants
\* binding:"required,oneof=delete stop tag notify" of ExecuteCleanupRequest.Action
HandlerActions ==
    {PolicyActionDelete, PolicyActionStop, PolicyActionTag, PolicyActionNotify}

RequestableActions == HandlerActions \cup {"archive"}

\* all sequences over S of length at most n
RECURSIVE SeqsUpTo(_, _)
SeqsUpTo(S, n) ==
    IF n = 0 THEN {<<>>}
    ELSE LET shorter == SeqsUpTo(S, n - 1) IN
         shorter \cup {Append(s, x) : s \in {t \in shorter : Len(t) = n - 1}, x \in S}

\* error texts the collaborators can produce
ErrRecordNotFound == <<"record not found">>
ErrDatabase == <<"connection refused">>
ErrProviderUnsupported == <<"unsupported provider">>
ErrCleaner == <<"access denied">>

VARIABLES
    resourceRows,        \* resource table: id -> stored Resource
    input,               \* CleanupResourcesInput
    output,              \* *CleanupResourcesOutput being built
    resultOcc,           \* for each entry of output.Results, the position in input.ResourceIDs it answers
    resources,           \* []*entity.Resource resolved by the lookup loop
    resourceOcc,         \* for each entry of resources, the position in input.ResourceIDs it came from
    resourcesByProvider, \* provider -> positions in resources (the pointers of the group)
    remaining,           \* providers of the map not yet ranged over
    provider,            \* provider of the group being processed
    i,                   \* position of the lookup loop
    j,                   \* position in the group being processed
    result,              \* *service.CleanupResult of the current iteration (Nil or <<r>>)
    err,                 \* err of the provider-loop body
    pc,                  \* position of Execute
    calls                \* trace of the calls on resourceRepo, the factory and the Cleaner

\* the state of one cleanup Execute
cleanupLocals == <<input, output, resultOcc, resources, resourceOcc,
                   resourcesByProvider, remaining, provider, i, j, result, err, pc, calls>>

\* a second Execute running concurrently with the first on the same use case
\* and the same resource table: its input, output, resources, result, err,
\* position and call trace, and whether its Cleaner call was made while the
\* first Execute held the same resource between its lookup and its record
VARIABLE peer

cleanupVars == <<resourceRows, cleanupLocals, peer>>

VARIABLES
    scanInput,           \* ScanResourcesInput
    scan,                \* *entity.Scan held by Execute (Nil before NewScan)
    scanRow,             \* the scan's row in the scan table (Nil before Create succeeds)
    scanner,             \* whether the factory returned a scanner
    discovered,          \* []*entity.Resource returned by discovery
    est,                 \* position of the estimation loop
    totalSavings,        \* totalSavings
    totalCarbon,         \* totalCarbon
    unusedCount,         \* unusedCount
    scanRet,             \* what Execute returned: the output (Nil or <<o>>) and the error
    scanPc,              \* position of the scan Execute
    now,                 \* the clock read by time.Now()
    scanCalls            \* trace of the calls on scanRepo, the factory, the scanner and resourceRepo

scanVars == <<scanInput, scan, scanRow, scanner, discovered, est, totalSavings, totalCarbon,
              unusedCount, scanRet, scanPc, now, scanCalls>>

VARIABLES
    scans,               \* scan table written by the HTTP handlers: sequence of model.Scan rows
    tasks,               \* tasks enqueued on the asynq queue and not yet processed
    handled,             \* the tasks the worker processed, each with the handler's return
    response             \* the last HTTP response written (Nil before any request)

serverVars == <<scans, tasks, handled, response>>

VARIABLES
    matchIn,             \* the resource and the conditions given to the condition engine
    matchOut             \* its answer (Nil before the evaluation)

matchVars == <<matchIn, matchOut>>

vars == <<cleanupVars, scanVars, serverVars, matchVars>>

\* what a step of the cleanup Execute, of the scan Execute leaves alone
outsideCleanup == <<scanVars, serverVars, matchVars, peer>>
outsideScan == <<cleanupLocals, serverVars, matchVars, peer>>
\* what a step of the second cleanup Execute leaves alone
outsidePeer == <<cleanupLocals, scanVars, serverVars, matchVars>>

\* ------------------------------------------------------------------------
\* service.CleanupResult and the results Execute builds itself
\* ------------------------------------------------------------------------
\* the zero value of the Action field
NoAction == ""

CleanupResult(id, success, action, msg, cost, carbon) ==
    [ResourceID |-> id, Success |-> success, Action |-> action,
     ErrorMessage |-> msg, CostSaved |-> cost, CarbonSaved |-> carbon]

\* the lookup failure reported as a success
NotFoundResult_AsSuccess(id, e) ==
    CleanupResult(id, TRUE, NoAction, <<"resource not found", ": ">> \o e, 0, 0)

\* fmt.Sprintf("resource not found: %v", err)
NotFoundResult(id, e) ==
    CleanupResult(id, FALSE, NoAction, <<"resource not found", ": ">> \o e, 0, 0)

\* the factory's error dropped from the message
FactoryFailedResult_NoCause(r, e) ==
    CleanupResult(r.ID, FALSE, NoAction, <<"failed to create cleaner">>, 0, 0)

\* fmt.Sprintf("failed to create cleaner: %v", err)
FactoryFailedResult(r, e) ==
    CleanupResult(r.ID, FALSE, NoAction, <<"failed to create cleaner", ": ">> \o e, 0, 0)

\* the synthesized result without the resource's estimates
DryRunResult_NoSavings(r, action) ==
    CleanupResult(r.ID, TRUE, action, EmptyString, 0, 0)

DryRunResult(r, action) ==
    CleanupResult(r.ID, TRUE, action, EmptyString, r.MonthlyCost, r.CarbonFootprint)

UnsupportedActionResult(r) ==
    CleanupResult(r.ID, FALSE, NoAction, <<"unsupported action">>, 0, 0)

\* err.Error() of the Cleaner's error
\* an error result that carries a fixed text instead of err.Error()
CleanerErrorResult_FixedText(r, e) ==
    CleanupResult(r.ID, FALSE, NoAction, <<"cleanup failed">>, 0, 0)

CleanerErrorResult(r, e) ==
    CleanupResult(r.ID, FALSE, NoAction, e, 0, 0)

EmptyOutput ==
    [Results |-> <<>>, TotalCostSaved |-> 0, TotalCarbonSaved |-> 0,
     SuccessCount |-> 0, FailureCount |-> 0]

\* the append without the FailureCount++ that follows it
AppendFailure_Uncounted(out, r) ==
    [out EXCEPT !.Results = Append(@, r)]

\* output.Results = append(...); output.FailureCount++
AppendFailure(out, r) ==
    [out EXCEPT !.Results = Append(@, r), !.FailureCount = @ + 1]

\* the dry-run branch's bookkeeping
AppendDryRun(out, r) ==
    [out EXCEPT !.Results = Append(@, r),
                !.TotalCostSaved = @ + r.CostSaved,
                !.TotalCarbonSaved = @ + r.CarbonSaved,
                !.SuccessCount = @ + 1]

\* the success flag not consulted
Succeeded_Always(r) == TRUE

\* if result.Success
Succeeded(r) == r.Success

\* the totals taken from every result, successful or not
Accumulate_AllTotals(out, r) ==
    IF Succeeded(r)
    THEN [out EXCEPT !.Results = Append(@, r),
                     !.TotalCostSaved = @ + r.CostSaved,
                     !.TotalCarbonSaved = @ + r.CarbonSaved,
                     !.SuccessCount = @ + 1]
    ELSE [out EXCEPT !.Results = Append(@, r),
                     !.TotalCostSaved = @ + r.CostSaved,
                     !.TotalCarbonSaved = @ + r.CarbonSaved,
                     !.FailureCount = @ + 1]

\* output.Results = append(output.Results, result) and the counters after it
Accumulate(out, r) ==
    IF Succeeded(r)
    THEN [out EXCEPT !.Results = Append(@, r),
                     !.TotalCostSaved = @ + r.CostSaved,
                     !.TotalCarbonSaved = @ + r.CarbonSaved,
                     !.SuccessCount = @ + 1]
    ELSE [out EXCEPT !.Results = Append(@, r), !.FailureCount = @ + 1]

\* the DryRun flag not consulted
IsDryRun_Ignored(in) == FALSE

\* if input.DryRun
IsDryRun(in) == in.DryRun

\* a switch with a case that sends notify to Cleaner.Tag
CleanerMethod_NotifyTags(action) ==
    CASE action = PolicyActionDelete -> "Delete"
      [] action = PolicyActionStop -> "Stop"
      [] action = PolicyActionTag -> "Tag"
      [] action = PolicyActionNotify -> "Tag"
      [] OTHER -> "none"

\* the switch on input.Action: the Cleaner method it selects, "none" for default
CleanerMethod(action) ==
    CASE action = PolicyActionDelete -> "Delete"
      [] action = PolicyActionStop -> "Stop"
      [] action = PolicyActionTag -> "Tag"
      [] OTHER -> "none"

\* the tags argument of the call
MarkerTags == {<<"cloudsweep:marked-for-deletion", "true">>}
CleanerTags(method) == IF method = "Tag" THEN MarkerTags ELSE {}

\* Resource.MarkAsDeleted
MarkAsDeleted(r) == [r EXCEPT !.Status = ResourceStatusDeleted]

\* ------------------------------------------------------------------------
\* Outcomes of the collaborators
\* ------------------------------------------------------------------------
\* a lookup that does not find a row already marked deleted
GetByIDOutcomes_HidesDeleted(id) ==
    IF id \in DOMAIN resourceRows /\ resourceRows[id].Status # ResourceStatusDeleted
    THEN {[resource |-> <<resourceRows[id]>>, err |-> NoError],
          [resource |-> Nil, err |-> ErrDatabase]}
    ELSE {[resource |-> Nil, err |-> ErrRecordNotFound]}

\* resourceRepo.GetByID(id): the row, or an error (no row, or the store failing)
GetByIDOutcomes(id) ==
    IF id \in DOMAIN resourceRows
    THEN {[resource |-> <<resourceRows[id]>>, err |-> NoError],
          [resource |-> Nil, err |-> ErrDatabase]}
    ELSE {[resource |-> Nil, err |-> ErrRecordNotFound]}

\* resourceRepo.Update(resource): the error it returns (Execute ignores it)
UpdateOutcomes == {NoError, ErrDatabase}

\* cleanerFactory.Create(provider, credentials)
FactoryOutcomes == {NoError, ErrProviderUnsupported}

\* what a Cleaner may put in a result object for resource r
CleanerResults(r, action) ==
    {CleanupResult(r.ID, s, action, IF s THEN EmptyString ELSE <<"resource in use">>, c[1], c[2]) :
        s \in BOOLEAN, c \in {<<0, 0>>, <<r.MonthlyCost, r.CarbonFootprint>>}}

\* Cleaner.Delete / Stop / Tag: (result, err), each possibly nil
CleanerOutcomes(r, action) ==
    {[result |-> <<x>>, err |-> NoError] : x \in CleanerResults(r, action)}
    \cup {[result |-> Nil, err |-> NoError],
          [result |-> Nil, err |-> ErrCleaner],
          [result |-> <<DryRunResult(r, action)>>, err |-> ErrCleaner]}

\* one entry of the call trace: the callee, its subject, the position in
\* input.ResourceIDs it serves, the tags argument and the error returned
Call(op, id, occ, tags, e) == [op |-> op, id |-> id, occ |-> occ, tags |-> tags, err |-> e]

\* a call of a Cleaner method also records the result pointer it returned
CleanerCall(op, id, occ, tags, e, ret) ==
    [op |-> op, id |-> id, occ |-> occ, tags |-> tags, err |-> e, ret |-> ret]

\* positions of s whose element satisfies Test
RECURSIVE Positions(_, _, _)
Positions(s, k, p) ==
    IF k > Len(s) THEN <<>>
    ELSE IF s[k].Provider = p THEN <<k>> \o Positions(s, k + 1, p)
    ELSE Positions(s, k + 1, p)

\* for _, r := range resources { resourcesByProvider[r.Provider] = append(...) }
GroupByProvider(rs) ==
    [p \in {rs[k].Provider : k \in 1..Len(rs)} |-> Positions(rs, 1, p)]

\* the failed results of a whole group, in group order
RECURSIVE AppendGroupFailures(_, _, _, _)
AppendGroupFailures(out, rs, group, e) ==
    IF group = <<>> THEN out
    ELSE AppendGroupFailures(AppendFailure(out, FactoryFailedResult(rs[Head(group)], e)),
                             rs, Tail(group), e)

\* the second Execute before it is entered
IdlePeer ==
    [input |-> [OrganizationID |-> "o1", ResourceIDs |-> <<>>,
                Action |-> PolicyActionDelete, DryRun |-> FALSE],
     output |-> EmptyOutput, resources |-> <<>>, result |-> Nil, err |-> NoError,
     pc |-> "idle", calls |-> <<>>, overlapped |-> FALSE]

\* ------------------------------------------------------------------------
\* CleanupResourcesUseCase.Execute
\* ------------------------------------------------------------------------
CleanupInit ==
    /\ resourceRows = Inventory
    /\ input = [OrganizationID |-> "o1", ResourceIDs |-> <<>>,
                Action |-> PolicyActionDelete, DryRun |-> FALSE]
    /\ output = EmptyOutput
    /\ resultOcc = <<>>
    /\ resources = <<>>
    /\ resourceOcc = <<>>
    /\ resourcesByProvider = <<>>
    /\ remaining = {}
    /\ provider = ""
    /\ i = 1
    /\ j = 1
    /\ result = Nil
    /\ err = NoError
    /\ pc = "idle"
    /\ calls = <<>>
    /\ peer = IdlePeer

\* Execute is entered with some input; output is allocated
Invoke ==
    /\ pc = "idle"
    /\ \E ids \in SeqsUpTo(RequestableIds, MaxIds), a \in RequestableActions, d \in BOOLEAN :
          input' = [OrganizationID |-> "o1", ResourceIDs |-> ids, Action |-> a, DryRun |-> d]
    /\ output' = EmptyOutput
    /\ pc' = "lookup"
    /\ UNCHANGED <<resourceRows, resultOcc, resources, resourceOcc, resourcesByProvider,
                   remaining, provider, i, j, result, err, calls>>
    /\ UNCHANGED outsideCleanup

\* one iteration of: for _, id := range input.ResourceIDs
LookupResource ==
    /\ pc = "lookup"
    /\ i <= Len(input.ResourceIDs)
    /\ \E o \in GetByIDOutcomes(input.ResourceIDs[i]) :
          /\ IF o.err # NoError
             THEN /\ output' = AppendFailure(output, NotFoundResult(input.ResourceIDs[i], o.err))
                  /\ resultOcc' = Append(resultOcc, i)
                  /\ UNCHANGED <<resources, resourceOcc>>
             ELSE /\ resources' = Append(resources, o.resource[1])
                  /\ resourceOcc' = Append(resourceOcc, i)
                  /\ UNCHANGED <<output, resultOcc>>
          /\ calls' = Append(calls, Call("GetByID", input.ResourceIDs[i], i, {}, o.err))
    /\ i' = i + 1
    /\ UNCHANGED <<resourceRows, input, resourcesByProvider, remaining, provider,
                   j, result, err, pc>>
    /\ UNCHANGED outsideCleanup

\* after the lookup loop: the early return, else the grouping loop
GroupResources ==
    /\ pc = "lookup"
    /\ i > Len(input.ResourceIDs)
    /\ IF Len(resources) = 0
       THEN /\ pc' = "done"
            /\ UNCHANGED <<resourcesByProvider, remaining>>
       ELSE /\ resourcesByProvider' = GroupByProvider(resources)
            /\ remaining' = DOMAIN GroupByProvider(resources)
            /\ pc' = "provider"
    /\ UNCHANGED <<resourceRows, input, output, resultOcc, resources, resourceOcc,
                   provider, i, j, result, err, calls>>
    /\ UNCHANGED outsideCleanup

\* head of: for provider, providerResources := range resourcesByProvider
\* (Go ranges over a map in an unspecified order)
CreateCleaner ==
    /\ pc = "provider"
    /\ \E p \in remaining, e \in FactoryOutcomes :
          /\ remaining' = remaining \ {p}
          /\ provider' = p
          /\ err' = e
          /\ calls' = Append(calls, Call("Create", p, 0, {}, e))
          /\ IF e # NoError
             THEN /\ output' = AppendGroupFailures(output, resources, resourcesByProvider[p], e)
                  /\ resultOcc' = resultOcc \o [k \in 1..Len(resourcesByProvider[p]) |->
                                                  resourceOcc[resourcesByProvider[p][k]]]
                  /\ UNCHANGED <<j, pc>>
             ELSE /\ j' = 1
                  /\ pc' = "resource"
                  /\ UNCHANGED <<output, resultOcc>>
    /\ UNCHANGED <<resourceRows, input, resources, resourceOcc, resourcesByProvider, i, result>>
    /\ UNCHANGED outsideCleanup

\* the dry-run branch of one iteration of: for _, resource := range providerResources
DryRunResource ==
    /\ pc = "resource"
    /\ j <= Len(resourcesByProvider[provider])
    /\ IsDryRun(input)
    /\ LET k == resourcesByProvider[provider][j] IN
          /\ output' = AppendDryRun(output, DryRunResult(resources[k], input.Action))
          /\ resultOcc' = Append(resultOcc, resourceOcc[k])
    /\ j' = j + 1
    /\ UNCHANGED <<resourceRows, input, resources, resourceOcc, resourcesByProvider,
                   remaining, provider, i, result, err, pc, calls>>
    /\ UNCHANGED outsideCleanup

\* the switch on input.Action and the err check after it
DispatchAction ==
    /\ pc = "resource"
    /\ j <= Len(resourcesByProvider[provider])
    /\ ~IsDryRun(input)
    /\ LET k == resourcesByProvider[provider][j]
           r == resources[k]
           m == CleanerMethod(input.Action)
       IN IF m = "none"
          THEN /\ result' = IF err # NoError THEN <<CleanerErrorResult(r, err)>>
                            ELSE <<UnsupportedActionResult(r)>>
               /\ UNCHANGED <<err, calls>>
          ELSE \E o \in CleanerOutcomes(r, input.Action) :
                  /\ calls' = Append(calls, CleanerCall(m, r.ID, resourceOcc[k],
                                                         CleanerTags(m), o.err, o.result))
                  /\ err' = o.err
                  /\ result' = IF o.err # NoError THEN <<CleanerErrorResult(r, o.err)>>
                               ELSE o.result
    /\ pc' = "record"
    /\ UNCHANGED <<resourceRows, input, output, resultOcc, resources, resourceOcc,
                   resourcesByProvider, remaining, provider, i, j>>
    /\ UNCHANGED outsideCleanup

\* a RecordResult that turns a failed Update into a failed result
RecordResult_UpdateEscalated ==
    /\ pc = "record"
    /\ LET k == resourcesByProvider[provider][j] IN
       IF result = Nil
       THEN /\ pc' = "panic"
            /\ UNCHANGED <<resourceRows, output, resultOcc, resources, j, calls>>
       ELSE /\ resultOcc' = Append(resultOcc, resourceOcc[k])
            /\ j' = j + 1
            /\ pc' = "resource"
            /\ IF ~Succeeded(result[1]) THEN output' = Accumulate(output, result[1]) ELSE TRUE
            /\ IF Succeeded(result[1])
               THEN /\ resources' = [resources EXCEPT ![k] = MarkAsDeleted(@)]
                    /\ \E e \in UpdateOutcomes :
                          /\ output' = IF e = NoError THEN Accumulate(output, result[1])
                                        ELSE AppendFailure(output,
                                                           CleanerErrorResult(resources[k], e))
                          /\ calls' = Append(calls, Call("Update", resources[k].ID,
                                                         resourceOcc[k], {}, e))
                          /\ resourceRows' = IF e = NoError
                                             THEN [resourceRows EXCEPT ![resources[k].ID] =
                                                       MarkAsDeleted(resources[k])]
                                             ELSE resourceRows
               ELSE UNCHANGED <<resourceRows, resources, calls>>
    /\ UNCHANGED <<input, resourceOcc, resourcesByProvider, remaining, provider, i, result, err>>
    /\ UNCHANGED outsideCleanup

\* append the result, count it, and on success mark and persist the resource;
\* result.Success on a nil result is a nil-pointer dereference
RecordResult ==
    /\ pc = "record"
    /\ LET k == resourcesByProvider[provider][j] IN
       IF result = Nil
       THEN /\ pc' = "panic"
            /\ UNCHANGED <<resourceRows, output, resultOcc, resources, j, calls>>
       ELSE /\ output' = Accumulate(output, result[1])
            /\ resultOcc' = Append(resultOcc, resourceOcc[k])
            /\ j' = j + 1
            /\ pc' = "resource"
            /\ IF Succeeded(result[1])
               THEN /\ resources' = [resources EXCEPT ![k] = MarkAsDeleted(@)]
                    /\ \E e \in UpdateOutcomes :
                          /\ calls' = Append(calls, Call("Update", resources[k].ID,
                                                         resourceOcc[k], {}, e))
                          /\ resourceRows' = IF e = NoError
                                             THEN [resourceRows EXCEPT ![resources[k].ID] =
                                                       MarkAsDeleted(resources[k])]
                                             ELSE resourceRows
               ELSE UNCHANGED <<resourceRows, resources, calls>>
    /\ UNCHANGED <<input, resourceOcc, resourcesByProvider, remaining, provider, i, result, err>>
    /\ UNCHANGED outsideCleanup

\* the inner loop is exhausted: back to the provider loop
NextProvider ==
    /\ pc = "resource"
    /\ j > Len(resourcesByProvider[provider])
    /\ pc' = "provider"
    /\ UNCHANGED <<resourceRows, input, output, resultOcc, resources, resourceOcc,
                   resourcesByProvider, remaining, provider, i, j, result, err, calls>>
    /\ UNCHANGED outsideCleanup

\* return output, nil
ReturnOutput ==
    /\ pc = "provider"
    /\ remaining = {}
    /\ pc' = "done"
    /\ UNCHANGED <<resourceRows, input, output, resultOcc, resources, resourceOcc,
                   resourcesByProvider, remaining, provider, i, j, result, err, calls>>
    /\ UNCHANGED outsideCleanup

CleanupNext ==
    \/ Invoke
    \/ LookupResource
    \/ GroupResources
    \/ CreateCleaner
    \/ DryRunResource
    \/ DispatchAction
    \/ RecordResult
    \/ NextProvider
    \/ ReturnOutput

\* Execute is entered again with the input of the execution that returned (the
\* same non-dry-run request delivered a second time): fresh locals, a fresh
\* output, the resource table as the earlier execution left it
Rerun ==
    /\ pc = "done"
    /\ ~input.DryRun
    /\ input.ResourceIDs # <<>>
    /\ output' = EmptyOutput
    /\ resultOcc' = <<>>
    /\ resources' = <<>>
    /\ resourceOcc' = <<>>
    /\ resourcesByProvider' = <<>>
    /\ remaining' = {}
    /\ provider' = ""
    /\ i' = 1
    /\ j' = 1
    /\ result' = Nil
    /\ err' = NoError
    /\ calls' = <<>>
    /\ pc' = "lookup"
    /\ UNCHANGED <<resourceRows, input>>
    /\ UNCHANGED outsideCleanup

RerunNext ==
    \/ Invoke
    \/ LookupResource
    \/ GroupResources
    \/ CreateCleaner
    \/ DryRunResource
    \/ DispatchAction
    \/ RecordResult
    \/ NextProvider
    \/ ReturnOutput
    \/ Rerun

\* ------------------------------------------------------------------------
\* Two concurrent invocations of CleanupResourcesUseCase.Execute. The use
\* case holds no lock and Execute takes none: the two executions share only
\* the resource table. The second execution is given one resource id, so its
\* loops have one iteration each.
\* ------------------------------------------------------------------------
\* the first Execute has resolved resource id and has not yet recorded its
\* result
FirstHolds(id) ==
    /\ pc \in {"resource", "record"}
    /\ j <= Len(resourcesByProvider[provider])
    /\ resources[resourcesByProvider[provider][j]].ID = id

\* both executions are entered with the same non-dry-run request for one id
InvokeBoth ==
    /\ pc = "idle"
    /\ peer.pc = "idle"
    /\ \E id \in RequestableIds, a \in RequestableActions :
          LET in == [OrganizationID |-> "o1", ResourceIDs |-> <<id>>,
                     Action |-> a, DryRun |-> FALSE]
          IN /\ input' = in
             /\ peer' = [peer EXCEPT !.input = in, !.output = EmptyOutput, !.pc = "lookup"]
    /\ output' = EmptyOutput
    /\ pc' = "lookup"
    /\ UNCHANGED <<resourceRows, resultOcc, resources, resourceOcc, resourcesByProvider,
                   remaining, provider, i, j, result, err, calls>>
    /\ UNCHANGED <<scanVars, serverVars, matchVars>>

\* the lookup loop of the second execution, and the early return after it
PeerLookupResource ==
    /\ peer.pc = "lookup"
    /\ LET id == peer.input.ResourceIDs[1] IN
       \E o \in GetByIDOutcomes(id) :
          peer' = IF o.err # NoError
                  THEN [peer EXCEPT !.output = AppendFailure(@, NotFoundResult(id, o.err)),
                                    !.calls = Append(@, Call("GetByID", id, 1, {}, o.err)),
                                    !.pc = "done"]
                  ELSE [peer EXCEPT !.resources = Append(@, o.resource[1]),
                                    !.calls = Append(@, Call("GetByID", id, 1, {}, o.err)),
                                    !.pc = "provider"]
    /\ UNCHANGED resourceRows
    /\ UNCHANGED outsidePeer

\* the head of the provider loop of the second execution
PeerCreateCleaner ==
    /\ peer.pc = "provider"
    /\ LET r == peer.resources[1] IN
       \E e \in FactoryOutcomes :
          peer' = IF e # NoError
                  THEN [peer EXCEPT !.err = e,
                                    !.output = AppendFailure(@, FactoryFailedResult(r, e)),
                                    !.calls = Append(@, Call("Create", r.Provider, 0, {}, e)),
                                    !.pc = "done"]
                  ELSE [peer EXCEPT !.err = e,
                                    !.calls = Append(@, Call("Create", r.Provider, 0, {}, e)),
                                    !.pc = "resource"]
    /\ UNCHANGED resourceRows
    /\ UNCHANGED outsidePeer

\* the switch on input.Action and the err check after it, second execution
PeerDispatchAction ==
    /\ peer.pc = "resource"
    /\ ~IsDryRun(peer.input)
    /\ LET r == peer.resources[1]
           m == CleanerMethod(peer.input.Action)
       IN IF m = "none"
          THEN peer' = [peer EXCEPT !.result = IF peer.err # NoError
                                                THEN <<CleanerErrorResult(r, peer.err)>>
                                                ELSE <<UnsupportedActionResult(r)>>,
                                    !.pc = "record"]
          ELSE \E o \in CleanerOutcomes(r, peer.input.Action) :
                  peer' = [peer EXCEPT !.calls = Append(@, CleanerCall(m, r.ID, 1, CleanerTags(m),
                                                                       o.err, o.result)),
                                       !.err = o.err,
                                       !.result = IF o.err # NoError
                                                  THEN <<CleanerErrorResult(r, o.err)>>
                                                  ELSE o.result,
                                       !.overlapped = FirstHolds(r.ID),
                                       !.pc = "record"]
    /\ UNCHANGED resourceRows
    /\ UNCHANGED outsidePeer

\* the bookkeeping of the second execution, and its return
PeerRecordResult ==
    /\ peer.pc = "record"
    /\ IF peer.result = Nil
       THEN /\ peer' = [peer EXCEPT !.pc = "panic"]
            /\ UNCHANGED resourceRows
       ELSE IF Succeeded(peer.result[1])
       THEN \E e \in UpdateOutcomes :
               /\ peer' = [peer EXCEPT !.output = Accumulate(@, peer.result[1]),
                                       !.resources[1] = MarkAsDeleted(@),
                                       !.calls = Append(@, Call("Update", peer.resources[1].ID,
                                                                1, {}, e)),
                                       !.pc = "done"]
               /\ resourceRows' = IF e = NoError
                                  THEN [resourceRows EXCEPT ![peer.resources[1].ID] =
                                            MarkAsDeleted(peer.resources[1])]
                                  ELSE resourceRows
       ELSE /\ peer' = [peer EXCEPT !.output = Accumulate(@, peer.result[1]), !.pc = "done"]
            /\ UNCHANGED resourceRows
    /\ UNCHANGED outsidePeer

ConcurrentNext ==
    \/ InvokeBoth
    \/ LookupResource
    \/ GroupResources
    \/ CreateCleaner
    \/ DispatchAction
    \/ RecordResult
    \/ NextProvider
    \/ ReturnOutput
    \/ PeerLookupResource
    \/ PeerCreateCleaner
    \/ PeerDispatchAction
    \/ PeerRecordResult

\* ------------------------------------------------------------------------
\* entity.Scan and its transition methods; now is the value of time.Now(),
\* 0 stands for a nil *time.Time
\* ------------------------------------------------------------------------
NewScan(orgID, prov, regions, resourceTypes, t) ==
    [OrganizationID |-> orgID, Provider |-> prov, Regions |-> regions,
     ResourceTypes |-> resourceTypes, Status |-> ScanStatusPending,
     ResourcesFound |-> 0, UnusedFound |-> 0, EstimatedSavings |-> 0, CarbonSavings |-> 0,
     ErrorMessage |-> EmptyString, StartedAt |-> 0, CompletedAt |-> 0,
     CreatedAt |-> t, UpdatedAt |-> t]

\* a Start that stamps the times and leaves the status alone
Start_StatusKept(s, t) ==
    [s EXCEPT !.StartedAt = t, !.UpdatedAt = t]

Start(s, t) ==
    [s EXCEPT !.Status = ScanStatusRunning, !.StartedAt = t, !.UpdatedAt = t]

Complete(s, resourcesFound, unusedFound, estimatedSavings, carbonSavings, t) ==
    [s EXCEPT !.Status = ScanStatusCompleted,
              !.ResourcesFound = resourcesFound,
              !.UnusedFound = unusedFound,
              !.EstimatedSavings = estimatedSavings,
              !.CarbonSavings = carbonSavings,
              !.CompletedAt = t,
              !.UpdatedAt = t]

\* a Fail that drops the message
Fail_NoMessage(s, errMsg, t) ==
    [s EXCEPT !.Status = ScanStatusFailed, !.CompletedAt = t, !.UpdatedAt = t]

Fail(s, errMsg, t) ==
    [s EXCEPT !.Status = ScanStatusFailed, !.ErrorMessage = errMsg,
              !.CompletedAt = t, !.UpdatedAt = t]

\* an IsUnused that counts every resource
IsUnused_Always(r) == TRUE

\* Resource.IsUnused
IsUnused(r) == r.Status = ResourceStatusUnused

\* Resource.MarkAsUnused
MarkAsUnused(r) == [r EXCEPT !.Status = ResourceStatusUnused]

\* ------------------------------------------------------------------------
\* Outcomes of the scan's collaborators
\* ------------------------------------------------------------------------
ErrScanner == <<"throttled">>

\* scanRepo.Create / scanRepo.Update / resourceRepo.BulkCreate
RepoOutcomes == {NoError, ErrDatabase}

\* scannerFactory.Create(provider, credentials)
ScannerFactoryOutcomes == {NoError, ErrProviderUnsupported}

\* the provider's k-th object has the native id "i-<k>"; the scanner reports
\* it through NewResource, which gives it a fresh uuid ("new-<k>") and status
\* active; the scanner knows no organization
NativeID(k) == "i-" \o ToString(k)

NewResource(prov, k, t) ==
    [Resource("new-" \o ToString(k), "", prov, NativeID(k), ResourceStatusActive, 0, 0)
        EXCEPT !.LastSeenAt = t]

Discoverable(prov, k, t) == NewResource(prov, k, t)

\* scanner.ScanResources(regions, resourceTypes): the resources, or an error
ScanResourcesOutcomes(prov, t) ==
    {[resources |-> [k \in 1..n |-> Discoverable(prov, k, t)], err |-> NoError] :
        n \in 0..MaxDiscovered}
    \cup {[resources |-> <<>>, err |-> ErrScanner]}

\* scanner.DetectUnused(resources): marks some resources unused in place, or fails
DetectUnusedOutcomes(rs) ==
    {[resources |-> [k \in 1..Len(rs) |-> IF k \in U THEN MarkAsUnused(rs[k]) ELSE rs[k]],
      err |-> NoError] : U \in SUBSET (1..Len(rs))}
    \cup {[resources |-> rs, err |-> ErrScanner]}

\* scanner.EstimateCost / EstimateCarbonFootprint: (value, err); a failing
\* call may return the zero value or a stale one next to its error
EstimateOutcomes ==
    {[value |-> 2, err |-> NoError], [value |-> 0, err |-> ErrScanner],
     [value |-> 1, err |-> ErrScanner]}

\* fmt.Errorf("<what>: %w", err)
Wrap(what, cause) == <<what, ": ">> \o cause

ScanCall(op, arg, cause) == [op |-> op, arg |-> arg, err |-> cause]

ScanResourcesOutput(found, unused, savings, carbon) ==
    [ResourcesFound |-> found, UnusedFound |-> unused,
     EstimatedSavings |-> savings, CarbonSavings |-> carbon]

\* ------------------------------------------------------------------------
\* ScanResourcesUseCase.Execute
\* ------------------------------------------------------------------------
ScanInit ==
    /\ scanInput = [OrganizationID |-> "o1", Provider |-> CloudProviderAWS,
                    Regions |-> <<"us-east-1">>, ResourceTypes |-> <<"ec2_instance">>]
    /\ scan = Nil
    /\ scanRow = Nil
    /\ scanner = FALSE
    /\ discovered = <<>>
    /\ est = 1
    /\ totalSavings = 0
    /\ totalCarbon = 0
    /\ unusedCount = 0
    /\ scanRet = [output |-> Nil, err |-> NoError]
    /\ scanPc = "idle"
    /\ now = 1
    /\ scanCalls = <<>>

\* Execute is entered: scan := entity.NewScan(...)
ScanInvoke ==
    /\ scanPc = "idle"
    /\ \E prov \in {CloudProviderAWS, CloudProviderGCP} :
          /\ scanInput' = [scanInput EXCEPT !.Provider = prov]
          /\ scan' = <<NewScan(scanInput.OrganizationID, prov, scanInput.Regions,
                               scanInput.ResourceTypes, now)>>
    /\ now' = now + 1
    /\ scanPc' = "create"
    /\ UNCHANGED <<scanRow, scanner, discovered, est, totalSavings, totalCarbon,
                   unusedCount, scanRet, scanCalls>>
    /\ UNCHANGED <<resourceRows, outsideScan>>

\* scanRepo.Create(ctx, scan)
ScanCreate ==
    /\ scanPc = "create"
    /\ \E o \in RepoOutcomes :
          /\ scanCalls' = Append(scanCalls, ScanCall("Create", scan[1], o))
          /\ IF o # NoError
             THEN /\ scanRet' = [output |-> Nil, err |-> Wrap("failed to create scan", o)]
                  /\ scanPc' = "returned"
                  /\ UNCHANGED scanRow
             ELSE /\ scanRow' = scan
                  /\ scanPc' = "start"
                  /\ UNCHANGED scanRet
    /\ UNCHANGED <<scanInput, scan, scanner, discovered, est, totalSavings, totalCarbon,
                   unusedCount, now>>
    /\ UNCHANGED <<resourceRows, outsideScan>>

\* scan.Start(); scanRepo.Update(ctx, scan)
ScanStart ==
    /\ scanPc = "start"
    /\ scan' = <<Start(scan[1], now)>>
    /\ now' = now + 1
    /\ \E o \in RepoOutcomes :
          /\ scanCalls' = Append(scanCalls, ScanCall("Update", scan'[1], o))
          /\ IF o # NoError
             THEN /\ scanRet' = [output |-> Nil, err |-> Wrap("failed to update scan status", o)]
                  /\ scanPc' = "returned"
                  /\ UNCHANGED scanRow
             ELSE /\ scanRow' = scan'
                  /\ scanPc' = "factory"
                  /\ UNCHANGED scanRet
    /\ UNCHANGED <<scanInput, scanner, discovered, est, totalSavings, totalCarbon, unusedCount>>
    /\ UNCHANGED <<resourceRows, outsideScan>>

\* scan.Fail(err.Error()); uc.scanRepo.Update(ctx, scan); return nil, fmt.Errorf(...)
\* the Update's own error is dropped; trace is the trace up to the failing call
FailAndReturn(what, cause, trace) ==
    /\ scan' = <<Fail(scan[1], cause, now)>>
    /\ now' = now + 1
    /\ \E o \in RepoOutcomes :
          /\ scanCalls' = Append(trace, ScanCall("Update", scan'[1], o))
          /\ scanRow' = IF o = NoError THEN scan' ELSE scanRow
    /\ scanRet' = [output |-> Nil, err |-> Wrap(what, cause)]
    /\ scanPc' = "returned"

\* uc.scannerFactory.Create(input.Provider, input.Credentials)
ScanCreateScanner ==
    /\ scanPc = "factory"
    /\ \E o \in ScannerFactoryOutcomes :
          LET trace == Append(scanCalls, ScanCall("Factory", scanInput.Provider, o)) IN
          IF o # NoError
          THEN /\ FailAndReturn("failed to create scanner", o, trace)
               /\ UNCHANGED scanner
          ELSE /\ scanner' = TRUE
               /\ scanCalls' = trace
               /\ scanPc' = "discover"
               /\ UNCHANGED <<scan, scanRow, scanRet, now>>
    /\ UNCHANGED <<scanInput, discovered, est, totalSavings, totalCarbon, unusedCount>>
    /\ UNCHANGED <<resourceRows, outsideScan>>

\* scanner.ScanResources(ctx, input.Regions, input.ResourceTypes)
ScanDiscover ==
    /\ scanPc = "discover"
    /\ \E o \in ScanResourcesOutcomes(scanInput.Provider, now) :
          LET trace == Append(scanCalls,
                              ScanCall("ScanResources",
                                       <<scanInput.Regions, scanInput.ResourceTypes>>, o.err)) IN
          IF o.err # NoError
          THEN /\ FailAndReturn("failed to scan resources", o.err, trace)
               /\ UNCHANGED discovered
          ELSE /\ discovered' = o.resources
               /\ scanCalls' = trace
               /\ scanPc' = "detect"
               /\ UNCHANGED <<scan, scanRow, scanRet, now>>
    /\ UNCHANGED <<scanInput, scanner, est, totalSavings, totalCarbon, unusedCount>>
    /\ UNCHANGED <<resourceRows, outsideScan>>

\* a stamping loop that leaves the resources as the scanner made them
StampOrganization_Skipped(rs, orgID) == rs

\* r.OrganizationID = input.OrganizationID for every resource
StampOrganization(rs, orgID) ==
    [k \in 1..Len(rs) |-> [rs[k] EXCEPT !.OrganizationID = orgID]]

\* the stamping loop and scanner.DetectUnused(ctx, resources)
ScanDetectUnused ==
    /\ scanPc = "detect"
    /\ LET stamped == StampOrganization(discovered, scanInput.OrganizationID) IN
       \E o \in DetectUnusedOutcomes(stamped) :
          LET trace == Append(scanCalls, ScanCall("DetectUnused", stamped, o.err)) IN
          /\ discovered' = o.resources
          /\ IF o.err # NoError
             THEN FailAndReturn("failed to detect unused resources", o.err, trace)
             ELSE /\ scanCalls' = trace
                  /\ scanPc' = "estimate"
                  /\ UNCHANGED <<scan, scanRow, scanRet, now>>
    /\ est' = 1
    /\ UNCHANGED <<scanInput, scanner, totalSavings, totalCarbon, unusedCount>>
    /\ UNCHANGED <<resourceRows, outsideScan>>

\* one iteration of the estimation loop; both errors are discarded (cost, _ :=)
ScanEstimate ==
    /\ scanPc = "estimate"
    /\ est <= Len(discovered)
    /\ \E c \in EstimateOutcomes, k \in EstimateOutcomes :
          /\ scanCalls' = scanCalls
                          \o <<ScanCall("EstimateCost", discovered[est].ID, c.err),
                               ScanCall("EstimateCarbonFootprint", discovered[est].ID, k.err)>>
          /\ discovered' = [discovered EXCEPT ![est].MonthlyCost = c.value,
                                              ![est].CarbonFootprint = k.value]
          /\ IF IsUnused(discovered[est])
             THEN /\ unusedCount' = unusedCount + 1
                  /\ totalSavings' = totalSavings + c.value
                  /\ totalCarbon' = totalCarbon + k.value
             ELSE UNCHANGED <<unusedCount, totalSavings, totalCarbon>>
    /\ est' = est + 1
    /\ UNCHANGED <<scanInput, scan, scanRow, scanner, scanRet, scanPc, now>>
    /\ UNCHANGED <<resourceRows, outsideScan>>

\* resourceRepo.BulkCreate "creates multiple resources": one new row per
\* resource of the batch under its primary key ID; the resources table has
\* no unique index over (organization_id, provider, resource_id)
BulkCreate(rows, batch) ==
    [id \in DOMAIN rows \cup {batch[k].ID : k \in 1..Len(batch)} |->
        IF \E k \in 1..Len(batch) : batch[k].ID = id
        THEN batch[CHOOSE k \in 1..Len(batch) : batch[k].ID = id]
        ELSE rows[id]]

\* uc.resourceRepo.BulkCreate(ctx, resources)
ScanBulkCreate ==
    /\ scanPc = "estimate"
    /\ est > Len(discovered)
    /\ \E o \in RepoOutcomes :
          LET trace == Append(scanCalls, ScanCall("BulkCreate", discovered, o)) IN
          IF o # NoError
          THEN /\ FailAndReturn("failed to save resources", o, trace)
               /\ UNCHANGED resourceRows
          ELSE /\ resourceRows' = BulkCreate(resourceRows, discovered)
               /\ scanCalls' = trace
               /\ scanPc' = "complete"
               /\ UNCHANGED <<scan, scanRow, scanRet, now>>
    /\ UNCHANGED <<scanInput, scanner, discovered, est, totalSavings, totalCarbon, unusedCount>>
    /\ UNCHANGED outsideScan

\* scan.Complete(...); scanRepo.Update(ctx, scan); return the output
ScanComplete ==
    /\ scanPc = "complete"
    /\ scan' = <<Complete(scan[1], Len(discovered), unusedCount, totalSavings, totalCarbon, now)>>
    /\ now' = now + 1
    /\ \E o \in RepoOutcomes :
          /\ scanCalls' = Append(scanCalls, ScanCall("Update", scan'[1], o))
          /\ IF o # NoError
             THEN /\ scanRet' = [output |-> Nil, err |-> Wrap("failed to complete scan", o)]
                  /\ UNCHANGED scanRow
             ELSE /\ scanRow' = scan'
                  /\ scanRet' = [output |-> <<ScanResourcesOutput(Len(discovered), unusedCount,
                                                                   totalSavings, totalCarbon)>>,
                                 err |-> NoError]
    /\ scanPc' = "returned"
    /\ UNCHANGED <<scanInput, scanner, discovered, est, totalSavings, totalCarbon, unusedCount>>
    /\ UNCHANGED <<resourceRows, outsideScan>>

\* ------------------------------------------------------------------------
\* The Scan entity on its own: a caller holding a *entity.Scan may call its
\* transition methods in any order
\* ------------------------------------------------------------------------
\* time.Now() readings in a run of entity calls
MaxEntityCalls == 4

\* the other scan variables, which the entity methods do not touch
scanLocals == <<scanInput, scanRow, scanner, discovered, est, totalSavings, totalCarbon,
                unusedCount, scanRet, scanPc, scanCalls>>

\* entity.NewScan(...)
EntityNewScan ==
    /\ scan = Nil
    /\ scanPc = "idle"
    /\ scan' = <<NewScan(scanInput.OrganizationID, scanInput.Provider, scanInput.Regions,
                         scanInput.ResourceTypes, now)>>
    /\ now' = now + 1
    /\ UNCHANGED scanLocals
    /\ UNCHANGED <<resourceRows, outsideScan>>

\* scan.Start()
EntityStart ==
    /\ scan # Nil
    /\ now <= MaxEntityCalls
    /\ scan' = <<Start(scan[1], now)>>
    /\ now' = now + 1
    /\ UNCHANGED scanLocals
    /\ UNCHANGED <<resourceRows, outsideScan>>

\* scan.Complete(resourcesFound, unusedFound, estimatedSavings, carbonSavings)
EntityComplete ==
    /\ scan # Nil
    /\ now <= MaxEntityCalls
    /\ \E found \in {1, 2}, savings \in {0, 2} :
          scan' = <<Complete(scan[1], found, 1, savings, savings, now)>>
    /\ now' = now + 1
    /\ UNCHANGED scanLocals
    /\ UNCHANGED <<resourceRows, outsideScan>>

\* scan.Fail(errMsg)
EntityFail ==
    /\ scan # Nil
    /\ now <= MaxEntityCalls
    /\ \E msg \in {ErrScanner, ErrDatabase} : scan' = <<Fail(scan[1], msg, now)>>
    /\ now' = now + 1
    /\ UNCHANGED scanLocals
    /\ UNCHANGED <<resourceRows, outsideScan>>

EntityNext ==
    \/ EntityNewScan
    \/ EntityStart
    \/ EntityComplete
    \/ EntityFail

\* an external request cancels the scan between the running write and the
\* final write of Execute: the stored row's status becomes cancelled
ExternalCancel ==
    /\ scanPc \in {"factory", "discover", "detect", "estimate", "complete"}
    /\ scanRow # Nil
    /\ scanRow[1].Status = ScanStatusRunning
    /\ scanRow' = <<[scanRow[1] EXCEPT !.Status = ScanStatusCancelled]>>
    /\ UNCHANGED <<scanInput, scan, scanner, discovered, est, totalSavings, totalCarbon,
                   unusedCount, scanRet, scanPc, now, scanCalls>>
    /\ UNCHANGED <<resourceRows, outsideScan>>

CancelNext ==
    \/ ScanInvoke
    \/ ScanCreate
    \/ ScanStart
    \/ ScanCreateScanner
    \/ ScanDiscover
    \/ ScanDetectUnused
    \/ ScanEstimate
    \/ ScanBulkCreate
    \/ ScanComplete
    \/ ExternalCancel

ScanNext ==
    \/ ScanInvoke
    \/ ScanCreate
    \/ ScanStart
    \/ ScanCreateScanner
    \/ ScanDiscover
    \/ ScanDetectUnused
    \/ ScanEstimate
    \/ ScanBulkCreate
    \/ ScanComplete

\* ------------------------------------------------------------------------
\* The HTTP handlers that write the scan and resource tables, and the worker's
\* task handlers.  A handler is one step: it answers one request or processes
\* one task.
\* ------------------------------------------------------------------------
TaskTypeScanResources == "scan:resources"
TaskTypeApplyPolicy == "policy:apply"

StatusOK == 200
StatusCreated == 201
StatusBadRequest == 400
StatusNotFound == 404
StatusInternalServerError == 500

\* rows POST /scans may create
MaxScans == 2

ErrQueue == <<"redis unavailable">>
ErrBinding == <<"validation failed">>
ErrUnmarshal == <<"invalid character">>

\* a path parameter or body field that uuid.Parse rejects
NotAUUID == "not-a-uuid"

JSONResponse(code, body) == [code |-> code, body |-> body]

\* bodies of POST /scans: CreateScanRequest before binding
CreateScanRequests ==
    [OrganizationID : {"o1", NotAUUID},
     Provider : {CloudProviderAWS, CloudProviderGCP, "oracle"},
     Regions : {<<>>, <<"us-east-1">>},
     ResourceTypes : {<<"ec2_instance">>}]

\* c.ShouldBindJSON: binding:"required,oneof=aws azure gcp", binding:"required,min=1"
Binds(req) ==
    /\ req.Provider \in {CloudProviderAWS, "azure", CloudProviderGCP}
    /\ Len(req.Regions) >= 1

\* model.Scan as ScanHandler.Create builds it; n numbers the uuid.New() values
ScanModel(n, req) ==
    [ID |-> "scan-" \o ToString(n), OrganizationID |-> req.OrganizationID,
     Provider |-> req.Provider, Regions |-> req.Regions,
     ResourceTypes |-> req.ResourceTypes, Status |-> ScanStatusPending]

\* queue.ScanResourcesPayload
ScanResourcesPayload(req) ==
    [OrganizationID |-> req.OrganizationID, Provider |-> req.Provider,
     Regions |-> req.Regions, ResourceTypes |-> req.ResourceTypes]

\* asynq.NewTask(typename, payload); origin records which scan row the task
\* was enqueued for: the payload itself carries no scan id
NewTask(typename, payload, origin) ==
    [type |-> typename, payload |-> payload, origin |-> origin]

\* what the worker records about a processed task
Handled(task, e) ==
    [type |-> task.type, payload |-> task.payload, origin |-> task.origin, err |-> e]

\* s without its n-th element
RemoveAt(s, n) == SubSeq(s, 1, n - 1) \o SubSeq(s, n + 1, Len(s))

\* POST /scans
ScanHandlerCreate ==
    /\ Len(scans) < MaxScans
    /\ \E req \in CreateScanRequests, created \in RepoOutcomes,
          enqueued \in {NoError, ErrQueue}, updated \in RepoOutcomes :
          LET row == ScanModel(Len(scans) + 1, req) IN
          IF ~Binds(req)
          THEN /\ response' = <<JSONResponse(StatusBadRequest, ErrBinding)>>
               /\ UNCHANGED <<scans, tasks>>
          ELSE IF req.OrganizationID = NotAUUID
          THEN /\ response' = <<JSONResponse(StatusBadRequest, <<"invalid organization ID">>)>>
               /\ UNCHANGED <<scans, tasks>>
          ELSE IF created # NoError
          THEN /\ response' = <<JSONResponse(StatusInternalServerError,
                                             <<"failed to create scan">>)>>
               /\ UNCHANGED <<scans, tasks>>
          ELSE IF enqueued # NoError
          THEN /\ scans' = Append(scans, IF updated = NoError
                                         THEN [row EXCEPT !.Status = ScanStatusFailed]
                                         ELSE row)
               /\ response' = <<JSONResponse(StatusInternalServerError,
                                             <<"failed to enqueue scan task">>)>>
               /\ UNCHANGED tasks
          ELSE /\ scans' = Append(scans, row)
               /\ tasks' = Append(tasks, NewTask(TaskTypeScanResources,
                                                 ScanResourcesPayload(req), row.ID))
               /\ response' = <<JSONResponse(StatusCreated,
                                             <<"scan created and queued for processing">>)>>
    /\ UNCHANGED handled
    /\ UNCHANGED <<cleanupVars, scanVars, matchVars>>

\* DELETE /resources/:id
ResourceHandlerDelete ==
    /\ \E idParam \in DOMAIN Inventory \cup {"r0", NotAUUID}, updated \in RepoOutcomes :
          IF idParam = NotAUUID
          THEN /\ response' = <<JSONResponse(StatusBadRequest, <<"invalid resource ID">>)>>
               /\ UNCHANGED resourceRows
          ELSE IF updated # NoError
          THEN /\ response' = <<JSONResponse(StatusInternalServerError,
                                             <<"failed to delete resource">>)>>
               /\ UNCHANGED resourceRows
          ELSE IF idParam \notin DOMAIN resourceRows
          THEN /\ response' = <<JSONResponse(StatusNotFound, <<"resource not found">>)>>
               /\ UNCHANGED resourceRows
          ELSE /\ resourceRows' = [resourceRows EXCEPT ![idParam].Status = ResourceStatusDeleted]
               /\ response' = <<JSONResponse(StatusOK, <<"resource deleted">>)>>
    /\ UNCHANGED <<scans, tasks, handled>>
    /\ UNCHANGED <<cleanupLocals, peer, scanVars, matchVars>>

\* the worker processes an enqueued scan:resources task: the payload is
\* unmarshalled and logged, nothing else is done, and nil is returned
HandleScanResources ==
    /\ \E n \in 1..Len(tasks) :
          /\ tasks[n].type = TaskTypeScanResources
          /\ handled' = handled \cup {Handled(tasks[n], NoError)}
          /\ tasks' = RemoveAt(tasks, n)
    /\ UNCHANGED <<scans, response>>
    /\ UNCHANGED <<cleanupVars, scanVars, matchVars>>

\* entity.Policy
NewPolicy(orgID, name, prov) ==
    [OrganizationID |-> orgID, Name |-> name, Provider |-> prov, ResourceTypes |-> <<>>,
     Conditions |-> [UnusedDays |-> 0, MinMonthlyCost |-> 0, MaxMonthlyCost |-> 0,
                     RequiredTags |-> {}, ExcludedTags |-> {}, Regions |-> <<>>,
                     NamePattern |-> EmptyString],
     Actions |-> <<>>, IsEnabled |-> TRUE]

\* Policy.Disable
Disable(p) == [p EXCEPT !.IsEnabled = FALSE]

\* the policies table: p1 is an enabled policy without conditions for the
\* provider of r1 and r2, p2 a disabled one; "p0" is an id that has no row
PolicyTable ==
    [p \in {"p1", "p2"} |->
        CASE p = "p1" -> [NewPolicy("o1", <<"idle-aws">>, CloudProviderAWS)
                             EXCEPT !.Actions = <<PolicyActionDelete>>]
          [] p = "p2" -> Disable(NewPolicy("o1", <<"idle-gcp">>, CloudProviderGCP))]

\* payloads of policy:apply tasks as the worker receives them: an
\* ApplyPolicyPayload, or bytes json.Unmarshal rejects
ApplyPolicyPayloads ==
    [OrganizationID : {"o1"}, PolicyID : {"p0", "p1", "p2"}]

MalformedPayload == [malformed |-> TRUE]

\* the worker processes a policy:apply task: the payload is unmarshalled and
\* logged, nothing else is done, and nil is returned
HandleApplyPolicy ==
    /\ \E payload \in ApplyPolicyPayloads \cup {MalformedPayload} :
          LET task == NewTask(TaskTypeApplyPolicy, payload, "") IN
          handled' = handled \cup
                        {Handled(task, IF payload = MalformedPayload
                                       THEN Wrap("failed to unmarshal payload", ErrUnmarshal)
                                       ELSE NoError)}
    /\ UNCHANGED <<scans, tasks, response>>
    /\ UNCHANGED <<cleanupVars, scanVars, matchVars>>

\* ------------------------------------------------------------------------
\* The policy condition engine.  PolicyConditions is the struct of the
\* source, where an absent condition is the zero value of its field; the
\* evaluation is the design's: no function of the source evaluates it.
\* Tag maps are sets of <<key, value>> pairs; a name and a pattern are
\* sequences of tokens, "*" standing for any run of tokens.
\* ------------------------------------------------------------------------
RECURSIVE GlobMatch(_, _)
GlobMatch(name, pattern) ==
    IF pattern = <<>> THEN name = <<>>
    ELSE IF Head(pattern) = "*"
    THEN GlobMatch(name, Tail(pattern)) \/ (name # <<>> /\ GlobMatch(Tail(name), pattern))
    ELSE name # <<>> /\ Head(name) = Head(pattern) /\ GlobMatch(Tail(name), Tail(pattern))

\* a Matches in which matching required tags settle the tag conditions
Matches_RequiredFirst(r, c, today) ==
    /\ c.UnusedDays = 0
       \/ (r.Status = ResourceStatusUnused /\ today - r.LastSeenAt >= c.UnusedDays)
    /\ c.MinMonthlyCost = 0 \/ r.MonthlyCost >= c.MinMonthlyCost
    /\ c.MaxMonthlyCost = 0 \/ r.MonthlyCost <= c.MaxMonthlyCost
    /\ IF c.RequiredTags # {}
       THEN c.RequiredTags \subseteq r.Tags
       ELSE c.ExcludedTags \cap r.Tags = {}
    /\ c.Regions = <<>> \/ \E n \in 1..Len(c.Regions) : c.Regions[n] = r.Region
    /\ c.NamePattern = EmptyString \/ GlobMatch(r.Name, c.NamePattern)

\* Matches(resource, conditions): the conjunction of the present conditions
Matches(r, c, today) ==
    /\ c.UnusedDays = 0
       \/ (r.Status = ResourceStatusUnused /\ today - r.LastSeenAt >= c.UnusedDays)
    /\ c.MinMonthlyCost = 0 \/ r.MonthlyCost >= c.MinMonthlyCost
    /\ c.MaxMonthlyCost = 0 \/ r.MonthlyCost <= c.MaxMonthlyCost
    /\ c.RequiredTags \subseteq r.Tags
    /\ c.ExcludedTags \cap r.Tags = {}
    /\ c.Regions = <<>> \/ \E n \in 1..Len(c.Regions) : c.Regions[n] = r.Region
    /\ c.NamePattern = EmptyString \/ GlobMatch(r.Name, c.NamePattern)

\* a policy applies to a resource
Applies(p, r, today) ==
    /\ p.IsEnabled
    /\ p.Provider = r.Provider
    /\ p.ResourceTypes = <<>> \/ \E n \in 1..Len(p.ResourceTypes) : p.ResourceTypes[n] = r.Type
    /\ Matches(r, p.Conditions, today)

\* the day of the evaluation
Today == 2

\* tag maps over two keys
TagMaps ==
    {env \cup team : env \in {{}, {<<"env", "prod">>}, {<<"env", "dev">>}},
                     team \in {{}, {<<"team", "a">>}}}

\* resources given to the engine
MatchResources ==
    {[Inventory["r1"] EXCEPT !.Tags = t, !.MonthlyCost = c, !.Status = st] :
        t \in TagMaps, c \in {1, 2},
        st \in {ResourceStatusActive, ResourceStatusUnused}}

\* conditions given to the engine
MatchConditions ==
    [UnusedDays : {0, 3}, MinMonthlyCost : {0, 2}, MaxMonthlyCost : {0},
     RequiredTags : TagMaps, ExcludedTags : TagMaps, Regions : {<<>>},
     NamePattern : {EmptyString, <<"web", "-", "*">>, <<"db", "*">>}]

\* the engine is asked about some resource and some conditions
MatchSomeInit ==
    /\ \E r \in MatchResources, c \in MatchConditions :
          matchIn = <<[resource |-> r, conditions |-> c]>>
    /\ matchOut = Nil

\* Matches is evaluated
EvaluateMatches ==
    /\ matchIn # Nil
    /\ matchOut = Nil
    /\ matchOut' = <<Matches(matchIn[1].resource, matchIn[1].conditions, Today)>>
    /\ UNCHANGED matchIn
    /\ UNCHANGED <<cleanupVars, scanVars, serverVars>>

MatchNext ==
    \/ EvaluateMatches

ServerNext ==
    \/ ScanHandlerCreate
    \/ ResourceHandlerDelete
    \/ HandleScanResources
    \/ HandleApplyPolicy

\* no request served, no task enqueued or processed
ServerInit ==
    /\ scans = <<>>
    /\ tasks = <<>>
    /\ handled = {}
    /\ response = Nil

\* the condition engine has not been asked
MatchInit ==
    /\ matchIn = Nil
    /\ matchOut = Nil

Init == CleanupInit /\ ScanInit /\ ServerInit /\ MatchInit

\* one cleanup invocation
SpecCleanup == Init /\ [][CleanupNext]_vars

\* one scan invocation
SpecScan == Init /\ [][ScanNext]_vars

\* entity transition calls in any order
SpecEntity == Init /\ [][EntityNext]_vars

\* one scan invocation with an external cancellation
SpecCancel == Init /\ [][CancelNext]_vars

\* two cleanup invocations for the same resource id, interleaved
SpecConcurrent == Init /\ [][ConcurrentNext]_vars

\* a cleanup request executed, then executed again any number of times
SpecRerun == Init /\ [][RerunNext]_vars

\* the API server and the worker
SpecServer == Init /\ [][ServerNext]_vars

\* one evaluation of the condition engine on each input
InitMatches == CleanupInit /\ ScanInit /\ ServerInit /\ MatchSomeInit

SpecMatches == InitMatches /\ [][MatchNext]_vars


\* ------------------------------------------------------------------------
\* Vocabulary of the properties
\* ------------------------------------------------------------------------
Returned == pc = "done"
Panicked == pc = "panic"

\* positions of output.Results that answer position occ of input.ResourceIDs
ResultsFor(occ) == {n \in 1..Len(output.Results) : resultOcc[n] = occ}

CleanerOps == {"Delete", "Stop", "Tag"}
CallsOf(ops) == {n \in 1..Len(calls) : calls[n].op \in ops}

RECURSIVE SumCostSaved(_)
SumCostSaved(rs) ==
    IF rs = <<>> THEN 0
    ELSE (IF Head(rs).Success THEN Head(rs).CostSaved ELSE 0) + SumCostSaved(Tail(rs))

RECURSIVE SumCarbonSaved(_)
SumCarbonSaved(rs) ==
    IF rs = <<>> THEN 0
    ELSE (IF Head(rs).Success THEN Head(rs).CarbonSaved ELSE 0) + SumCarbonSaved(Tail(rs))

\* ------------------------------------------------------------------------
\* C1: Execute never fails wholesale: whatever the repository, the factory
\* and the Cleaner do (a Cleaner method returning neither a result nor an
\* error included), no panic crosses the orchestrator boundary.
\* ------------------------------------------------------------------------
C1_NeverFailsWholesale == ~Panicked

\* ------------------------------------------------------------------------
\* C2: in every returned report SuccessCount + FailureCount is the number of
\* results, every requested id has exactly one result, and each result is
\* counted in exactly the counter its success flag names.
\* ------------------------------------------------------------------------
C2_CountsMatchResults ==
    /\ output.SuccessCount + output.FailureCount = Len(output.Results)
    /\ Returned =>
          /\ \A occ \in 1..Len(input.ResourceIDs) : Cardinality(ResultsFor(occ)) = 1
          /\ Len(output.Results) = Len(input.ResourceIDs)
          /\ output.SuccessCount =
                Cardinality({n \in 1..Len(output.Results) : output.Results[n].Success})
          /\ output.FailureCount =
                Cardinality({n \in 1..Len(output.Results) : ~output.Results[n].Success})

\* a returned report holding an unresolved id and a successful result
C2_Witness ==
    /\ Returned
    /\ output.SuccessCount = 1
    /\ output.FailureCount = 1
    /\ \E n \in CallsOf({"GetByID"}) : calls[n].err # NoError

\* ------------------------------------------------------------------------
\* C3: in every returned report TotalCostSaved (TotalCarbonSaved) is the sum
\* of costSaved (carbonSaved) over exactly the successful results.
\* ------------------------------------------------------------------------
C3_TotalsOverSuccesses ==
    Returned =>
        /\ output.TotalCostSaved = SumCostSaved(output.Results)
        /\ output.TotalCarbonSaved = SumCarbonSaved(output.Results)

\* a real run returning a failed result that carries a cost next to a success
C3_Witness ==
    /\ Returned
    /\ ~input.DryRun
    /\ \E n \in 1..Len(output.Results) :
          ~output.Results[n].Success /\ output.Results[n].CostSaved > 0
    /\ \E n \in 1..Len(output.Results) :
          output.Results[n].Success /\ output.Results[n].CostSaved > 0

\* ------------------------------------------------------------------------
\* C4: a dry run is side-effect-free: no Cleaner method and no
\* resourceRepo.Update is called, and no resource status changes, in memory
\* or stored.
\* ------------------------------------------------------------------------
C4_DryRunNoSideEffects ==
    (pc # "idle" /\ input.DryRun) =>
        /\ CallsOf(CleanerOps \cup {"Update"}) = {}
        /\ resourceRows = Inventory
        /\ \A k \in 1..Len(resources) : resources[k] = Inventory[resources[k].ID]

\* a dry-run delete that returned after processing two resolved resources
C4_Witness ==
    /\ Returned
    /\ input.DryRun
    /\ input.Action = PolicyActionDelete
    /\ output.SuccessCount = 2

\* ------------------------------------------------------------------------
\* More vocabulary
\* ------------------------------------------------------------------------
\* cleanerFactory.Create was called for provider p and returned an error
FactoryFailedFor(p) ==
    \E n \in CallsOf({"Create"}) : calls[n].id = p /\ calls[n].err # NoError

\* cleanerFactory.Create was called for provider p and returned a Cleaner
FactorySucceededFor(p) ==
    \E n \in CallsOf({"Create"}) : calls[n].id = p /\ calls[n].err = NoError

\* s starts with the tokens of prefix
StartsWith(s, prefix) ==
    Len(s) >= Len(prefix) /\ SubSeq(s, 1, Len(prefix)) = prefix

\* s ends with the tokens of suffix
EndsWith(s, suffix) ==
    Len(s) >= Len(suffix) /\ SubSeq(s, Len(s) - Len(suffix) + 1, Len(s)) = suffix

RECURSIVE SumMonthlyCost(_, _)
\* sum of MonthlyCost over the entries of rs whose position is in K
SumMonthlyCost(rs, K) ==
    IF K = {} THEN 0
    ELSE LET k == CHOOSE x \in K : TRUE IN rs[k].MonthlyCost + SumMonthlyCost(rs, K \ {k})

\* the result of resolved resource k is the dry-run success carrying its estimates
DryRunSuccessFor(k) ==
    \A n \in ResultsFor(resourceOcc[k]) :
        /\ output.Results[n].Success
        /\ output.Results[n].CostSaved = resources[k].MonthlyCost
        /\ output.Results[n].CarbonSaved = resources[k].CarbonFootprint

\* ------------------------------------------------------------------------
\* C5 (as stated): in a dry run every resolved resource gets a successful
\* result carrying its monthly cost and carbon footprint, and TotalCostSaved
\* is the sum of the monthly costs of the resolved resources.
\* ------------------------------------------------------------------------
C5_Original ==
    (Returned /\ input.DryRun) =>
        /\ \A k \in 1..Len(resources) :
              Cardinality(ResultsFor(resourceOcc[k])) = 1 /\ DryRunSuccessFor(k)
        /\ output.TotalCostSaved = SumMonthlyCost(resources, 1..Len(resources))

\* ------------------------------------------------------------------------
\* C5 (amended): in a dry run every resolved resource whose provider group
\* obtained a Cleaner from the factory gets a successful result carrying its
\* monthly cost and carbon footprint, and TotalCostSaved is the sum of the
\* monthly costs of those resources.
\* ------------------------------------------------------------------------
C5_DryRunSavings ==
    (Returned /\ input.DryRun) =>
        LET served == {k \in 1..Len(resources) : FactorySucceededFor(resources[k].Provider)} IN
        /\ \A k \in served :
              Cardinality(ResultsFor(resourceOcc[k])) = 1 /\ DryRunSuccessFor(k)
        /\ output.TotalCostSaved = SumMonthlyCost(resources, served)

\* a returned dry run over two resolved resources, one of them in a group
\* whose factory call failed
C5_Witness ==
    /\ Returned
    /\ input.DryRun
    /\ Len(resources) = 2
    /\ output.SuccessCount = 1
    /\ output.TotalCostSaved > 0
    /\ \E k \in 1..Len(resources) : FactoryFailedFor(resources[k].Provider)

\* ------------------------------------------------------------------------
\* C6: in a real run a resource is marked deleted, and resourceRepo.Update
\* called for it, if and only if its result is a success; the mark comes
\* after the Cleaner call for that resource returned without error, for
\* delete, stop and tag alike; a resource with a failed result keeps its
\* status, in memory and stored.
\* ------------------------------------------------------------------------
C6_MarkedIffSucceeded ==
    (pc # "idle" /\ ~input.DryRun) =>
        /\ \A k \in 1..Len(resources) :
              LET succeeded == \E n \in ResultsFor(resourceOcc[k]) : output.Results[n].Success
                  updates == {n \in CallsOf({"Update"}) : calls[n].occ = resourceOcc[k]}
                  cleaned == {n \in CallsOf(CleanerOps) :
                                 calls[n].occ = resourceOcc[k] /\ calls[n].err = NoError}
              IN /\ (resources[k].Status = ResourceStatusDeleted) <=> succeeded
                 /\ (updates # {}) <=> succeeded
                 /\ Cardinality(updates) <= 1
                 /\ \A u \in updates : \E c \in cleaned : c < u
                 /\ ~succeeded => resources[k] = Inventory[resources[k].ID]
        /\ \A id \in DOMAIN resourceRows :
              \/ resourceRows[id] = Inventory[id]
              \/ /\ resourceRows[id] = MarkAsDeleted(Inventory[id])
                 /\ \E n \in CallsOf({"Update"}) : calls[n].id = id /\ calls[n].err = NoError

\* a returned stop run in which one resource succeeded and was marked and
\* persisted while the other failed and kept its status
C6_Witness ==
    /\ Returned
    /\ ~input.DryRun
    /\ input.Action = PolicyActionStop
    /\ Len(resources) = 2
    /\ \E k \in 1..2 : /\ resources[k].Status = ResourceStatusDeleted
                       /\ resourceRows[resources[k].ID].Status = ResourceStatusDeleted
    /\ \E k \in 1..2 : /\ resources[k].Status # ResourceStatusDeleted
                       /\ \E n \in CallsOf(CleanerOps) : calls[n].occ = resourceOcc[k]

\* the lookups that returned an error
FailedLookups == {n \in CallsOf({"GetByID"}) : calls[n].err # NoError}

\* everything C7 says of a failed lookup except the text of the message
UnresolvedIsExcluded(c) ==
    /\ Cardinality(ResultsFor(c.occ)) = 1
    /\ \A n \in ResultsFor(c.occ) :
          ~output.Results[n].Success /\ output.Results[n].ResourceID = c.id
    /\ \A k \in 1..Len(resources) : resourceOcc[k] # c.occ
    /\ \A n \in CallsOf(CleanerOps \cup {"Update"}) : calls[n].occ # c.occ

\* ------------------------------------------------------------------------
\* C7 (as stated): every id whose lookup fails has exactly one result, a
\* failure whose errorMessage is "resource not found", is counted once in
\* FailureCount and takes no further part; the other ids are processed.
\* ------------------------------------------------------------------------
C7_Original ==
    \A c \in {calls[n] : n \in FailedLookups} :
        /\ UnresolvedIsExcluded(c)
        /\ \A n \in ResultsFor(c.occ) :
              output.Results[n].ErrorMessage = <<"resource not found">>

\* ------------------------------------------------------------------------
\* C7 (amended): every id whose lookup fails has exactly one result, a
\* failure whose errorMessage is "resource not found: " followed by the
\* text of the lookup error, is counted once in FailureCount and takes no
\* further part (no group, no factory or Cleaner call); the other ids are
\* still processed.
\* ------------------------------------------------------------------------
C7_UnresolvedIds ==
    /\ \A c \in {calls[n] : n \in FailedLookups} :
          /\ UnresolvedIsExcluded(c)
          /\ \A n \in ResultsFor(c.occ) :
                output.Results[n].ErrorMessage = <<"resource not found", ": ">> \o c.err
    /\ output.FailureCount >= Cardinality(FailedLookups)
    /\ Returned =>
          /\ output.FailureCount =
                Cardinality(FailedLookups)
                + Cardinality({n \in 1..Len(output.Results) :
                                  /\ ~output.Results[n].Success
                                  /\ \A c \in FailedLookups : calls[c].occ # resultOcc[n]})
          /\ \A occ \in 1..Len(input.ResourceIDs) : ResultsFor(occ) # {}
          /\ \A p \in {resources[k].Provider : k \in 1..Len(resources)} :
                \E n \in CallsOf({"Create"}) : calls[n].id = p

\* a returned real run with one id that has no row and one id that was
\* resolved, sent to the Cleaner and succeeded
C7_Witness ==
    /\ Returned
    /\ Cardinality(FailedLookups) = 1
    /\ output.FailureCount = 1
    /\ output.SuccessCount = 1
    /\ CallsOf(CleanerOps) # {}

\* ------------------------------------------------------------------------
\* C8: when the factory fails for a provider group, every resource of the
\* group gets exactly one failed result carrying the factory's error text,
\* no Cleaner method is called and nothing is marked or updated for the
\* group, and the other groups are still processed.
\* ------------------------------------------------------------------------
C8_FactoryFailure ==
    /\ \A c \in {calls[n] : n \in CallsOf({"Create"})} :
          c.err # NoError =>
             \A k \in 1..Len(resources) :
                resources[k].Provider = c.id =>
                   /\ Cardinality(ResultsFor(resourceOcc[k])) = 1
                   /\ \A n \in ResultsFor(resourceOcc[k]) :
                         /\ ~output.Results[n].Success
                         /\ output.Results[n].ResourceID = resources[k].ID
                         /\ EndsWith(output.Results[n].ErrorMessage, c.err)
                   /\ \A n \in CallsOf(CleanerOps \cup {"Update"}) :
                         calls[n].occ # resourceOcc[k]
                   /\ resources[k] = Inventory[resources[k].ID]
    /\ Returned =>
          /\ \A p \in {resources[k].Provider : k \in 1..Len(resources)} :
                Cardinality({n \in CallsOf({"Create"}) : calls[n].id = p}) = 1
          /\ \A k \in 1..Len(resources) : ResultsFor(resourceOcc[k]) # {}

\* a returned real run in which one group's factory call failed and the
\* other group's resource was sent to the Cleaner and succeeded
C8_Witness ==
    /\ Returned
    /\ ~input.DryRun
    /\ \E p \in {CloudProviderAWS, CloudProviderGCP} : FactoryFailedFor(p)
    /\ \E p \in {CloudProviderAWS, CloudProviderGCP} : FactorySucceededFor(p)
    /\ output.SuccessCount = 1
    /\ output.FailureCount = 1

\* delete goes to Cleaner.Delete, stop to Cleaner.Stop, tag to Cleaner.Tag
\* with exactly the marker tag; no other Cleaner call is made
DispatchIsByAction ==
    \A n \in CallsOf(CleanerOps) :
        /\ (calls[n].op = "Delete") <=> (input.Action = "delete")
        /\ (calls[n].op = "Stop") <=> (input.Action = "stop")
        /\ (calls[n].op = "Tag") <=> (input.Action = "tag")
        /\ calls[n].tags = IF calls[n].op = "Tag"
                           THEN {<<"cloudsweep:marked-for-deletion", "true">>}
                           ELSE {}

\* resolved resource k was refused as an unsupported action
UnsupportedFor(k) ==
    /\ Cardinality(ResultsFor(resourceOcc[k])) = 1
    /\ \A n \in ResultsFor(resourceOcc[k]) :
          /\ ~output.Results[n].Success
          /\ output.Results[n].ErrorMessage = <<"unsupported action">>
    /\ resources[k] = Inventory[resources[k].ID]

\* ------------------------------------------------------------------------
\* C9 (as stated): in a real run any action other than delete, stop or tag
\* gives every resolved resource a failed result with message "unsupported
\* action", with no Cleaner call and no status change; delete, stop and tag
\* dispatch to Cleaner.Delete, Cleaner.Stop and Cleaner.Tag with the marker
\* tag.
\* ------------------------------------------------------------------------
C9_Original ==
    (Returned /\ ~input.DryRun) =>
        /\ DispatchIsByAction
        /\ input.Action \notin {"delete", "stop", "tag"} =>
              /\ CallsOf(CleanerOps \cup {"Update"}) = {}
              /\ resourceRows = Inventory
              /\ \A k \in 1..Len(resources) : UnsupportedFor(k)

\* ------------------------------------------------------------------------
\* C9 (amended): in a real run any action other than delete, stop or tag
\* gives every resolved resource whose provider group obtained a Cleaner
\* from the factory a failed result with message "unsupported action", with
\* no Cleaner call and no status change for any resource; delete, stop and
\* tag dispatch to Cleaner.Delete, Cleaner.Stop and Cleaner.Tag with exactly
\* the marker tag.
\* ------------------------------------------------------------------------
C9_UnsupportedAction ==
    (Returned /\ ~input.DryRun) =>
        /\ DispatchIsByAction
        /\ input.Action \notin {"delete", "stop", "tag"} =>
              /\ CallsOf(CleanerOps \cup {"Update"}) = {}
              /\ resourceRows = Inventory
              /\ \A k \in 1..Len(resources) :
                    FactorySucceededFor(resources[k].Provider) => UnsupportedFor(k)

\* a returned real notify run whose resolved resources were all refused
C9_Witness ==
    /\ Returned
    /\ ~input.DryRun
    /\ input.Action = PolicyActionNotify
    /\ input.Action \in HandlerActions
    /\ Len(resources) = 2
    /\ \A k \in 1..2 : FactorySucceededFor(resources[k].Provider)
    /\ output.FailureCount = 2

\* ------------------------------------------------------------------------
\* C10: in every scan Execute the scan's status, in memory and in its row,
\* follows pending -> running -> at most one of {completed, failed}: the
\* row is created as pending, no step moves a status backwards or from one
\* terminal state to another, and Execute never sets cancelled.
\* ------------------------------------------------------------------------
ScanStatusOf(p) == IF p = Nil THEN "none" ELSE p[1].Status

ScanStatusSteps ==
    {<<"none", ScanStatusPending>>,
     <<ScanStatusPending, ScanStatusRunning>>,
     <<ScanStatusRunning, ScanStatusCompleted>>,
     <<ScanStatusRunning, ScanStatusFailed>>}

C10_ScanStatusMachine ==
    [][ /\ \/ ScanStatusOf(scan') = ScanStatusOf(scan)
           \/ <<ScanStatusOf(scan), ScanStatusOf(scan')>> \in ScanStatusSteps
        /\ \/ ScanStatusOf(scanRow') = ScanStatusOf(scanRow)
           \/ <<ScanStatusOf(scanRow), ScanStatusOf(scanRow')>> \in ScanStatusSteps
        /\ ScanStatusOf(scan') # ScanStatusCancelled
        /\ ScanStatusOf(scanRow') # ScanStatusCancelled
        /\ \A n \in 1..Len(scanCalls') :
              /\ scanCalls'[n].op = "Create" => scanCalls'[n].arg.Status = ScanStatusPending
              /\ scanCalls'[n].op = "Update" =>
                    scanCalls'[n].arg.Status \in
                       {ScanStatusRunning, ScanStatusCompleted, ScanStatusFailed}
      ]_vars

\* Execute returned after the bulk write failed: the row went pending,
\* running, failed
C10_Witness ==
    /\ scanPc = "returned"
    /\ ScanStatusOf(scanRow) = ScanStatusFailed
    /\ ScanStatusOf(scan) = ScanStatusFailed
    /\ \E n \in 1..Len(scanCalls) : scanCalls[n].op = "BulkCreate"

\* ------------------------------------------------------------------------
\* Vocabulary of the scan properties
\* ------------------------------------------------------------------------
ScanReturned == scanPc = "returned"

ScanCallsOf(ops) == {n \in 1..Len(scanCalls) : scanCalls[n].op \in ops}

\* the calls whose failure sends Execute down its fail path
FailPathOps == {"Factory", "ScanResources", "DetectUnused", "BulkCreate"}

FailedStepCalls == {n \in ScanCallsOf(FailPathOps) : scanCalls[n].err # NoError}

\* positions of rs whose resource has status unused
UnusedPositions(rs) == {k \in 1..Len(rs) : rs[k].Status = ResourceStatusUnused}

RECURSIVE SumCarbonFootprint(_, _)
\* sum of CarbonFootprint over the entries of rs whose position is in K
SumCarbonFootprint(rs, K) ==
    IF K = {} THEN 0
    ELSE LET k == CHOOSE x \in K : TRUE IN rs[k].CarbonFootprint + SumCarbonFootprint(rs, K \ {k})

\* ------------------------------------------------------------------------
\* C11 (as stated): whenever the scan Execute has returned an error after the
\* scan row was created, the stored row has status failed and a non-empty
\* error message, and no returned execution leaves the stored row pending or
\* running.
\* ------------------------------------------------------------------------
C11_ErrorLeavesFailedRow ==
    (ScanReturned /\ scanRow # Nil) =>
        /\ scanRow[1].Status \notin {ScanStatusPending, ScanStatusRunning}
        /\ scanRet.err # NoError =>
              /\ scanRow[1].Status = ScanStatusFailed
              /\ scanRow[1].ErrorMessage # EmptyString

\* ------------------------------------------------------------------------
\* C12: when the scanner factory, discovery, classification or the bulk write
\* fails, Execute moves the scan to failed with that error's message, issues
\* a scan Update carrying it, returns an error that wraps it and no output,
\* and makes no later call (no BulkCreate, no completing Update); the scan
\* row, once created, is never removed.
\* ------------------------------------------------------------------------
C12_FailPath ==
    /\ [](\A n \in FailedStepCalls :
            /\ ScanReturned
            /\ Len(scanCalls) = n + 1
            /\ scanCalls[n + 1].op = "Update"
            /\ scanCalls[n + 1].arg.Status = ScanStatusFailed
            /\ scanCalls[n + 1].arg.ErrorMessage = scanCalls[n].err
            /\ scan[1].Status = ScanStatusFailed
            /\ scan[1].ErrorMessage = scanCalls[n].err
            /\ scanRet.output = Nil
            /\ EndsWith(scanRet.err, scanCalls[n].err)
            /\ Len(scanRet.err) > Len(scanCalls[n].err)
            /\ \A m \in ScanCallsOf({"BulkCreate"}) : m <= n
            /\ \A m \in ScanCallsOf({"Update"}) :
                  scanCalls[m].arg.Status # ScanStatusCompleted)
    /\ [][scanRow # Nil => scanRow' # Nil]_vars

\* the bulk write failed and the stored row became failed with its message
C12_Witness ==
    /\ ScanReturned
    /\ \E n \in FailedStepCalls : scanCalls[n].op = "BulkCreate"
    /\ scanRow # Nil
    /\ scanRow[1].Status = ScanStatusFailed
    /\ scanRow[1].ErrorMessage = ErrDatabase

\* ------------------------------------------------------------------------
\* C13: BulkCreate is called at most once in an execution, only after a
\* successful discovery and a successful classification and after a cost and
\* a carbon estimate were requested for every resource it is given, and every
\* resource it is given carries the organization id of the request.
\* ------------------------------------------------------------------------
C13_BulkCreateOnce ==
    /\ Cardinality(ScanCallsOf({"BulkCreate"})) <= 1
    /\ \A n \in ScanCallsOf({"BulkCreate"}) :
          LET batch == scanCalls[n].arg IN
          /\ \E m \in ScanCallsOf({"ScanResources"}) : m < n /\ scanCalls[m].err = NoError
          /\ \E m \in ScanCallsOf({"DetectUnused"}) :
                /\ m < n
                /\ scanCalls[m].err = NoError
                /\ Len(scanCalls[m].arg) = Len(batch)
          /\ \A k \in 1..Len(batch) :
                /\ \E m \in ScanCallsOf({"EstimateCost"}) :
                      m < n /\ scanCalls[m].arg = batch[k].ID
                /\ \E m \in ScanCallsOf({"EstimateCarbonFootprint"}) :
                      m < n /\ scanCalls[m].arg = batch[k].ID
                /\ batch[k].OrganizationID = scanInput.OrganizationID

\* a bulk write of at least two resources
C13_Witness ==
    \E n \in ScanCallsOf({"BulkCreate"}) :
        /\ Len(scanCalls[n].arg) >= 2
        /\ scanCalls[n].err = NoError

\* ------------------------------------------------------------------------
\* C14: when Execute returns without error, the report and the completed scan
\* row carry the same four values: the number of discovered resources, the
\* number of them with status unused after classification, and the sums of
\* the cost and carbon estimates of exactly the unused ones.
\* ------------------------------------------------------------------------
C14_ReportMatchesRow ==
    (ScanReturned /\ scanRet.err = NoError) =>
        LET report == scanRet.output[1]
            row == scanRow[1]
            U == UnusedPositions(discovered)
        IN  /\ scanRet.output # Nil
            /\ row.Status = ScanStatusCompleted
            /\ report.ResourcesFound = Len(discovered)
            /\ report.UnusedFound = Cardinality(U)
            /\ report.EstimatedSavings = SumMonthlyCost(discovered, U)
            /\ report.CarbonSavings = SumCarbonFootprint(discovered, U)
            /\ row.ResourcesFound = report.ResourcesFound
            /\ row.UnusedFound = report.UnusedFound
            /\ row.EstimatedSavings = report.EstimatedSavings
            /\ row.CarbonSavings = report.CarbonSavings

\* several resources discovered, exactly one of them unused, and the report
\* carries that one's estimates while another resource has estimates too
C14_Witness ==
    /\ ScanReturned
    /\ scanRet.err = NoError
    /\ Len(discovered) >= 2
    /\ Cardinality(UnusedPositions(discovered)) = 1
    /\ scanRet.output[1].EstimatedSavings = 2
    /\ scanRet.output[1].CarbonSavings = 2
    /\ \E k \in 1..Len(discovered) :
          discovered[k].Status = ResourceStatusActive /\ discovered[k].MonthlyCost = 2

\* ------------------------------------------------------------------------
\* C15 (as stated): the resource table holds at most one row per
\* (organization_id, provider, native resource id): a scan that observes a
\* resource which already has a row does not add a second row for it.
\* ------------------------------------------------------------------------
C15_OneRowPerNativeId ==
    \A a, b \in DOMAIN resourceRows :
        (/\ resourceRows[a].OrganizationID = resourceRows[b].OrganizationID
         /\ resourceRows[a].Provider = resourceRows[b].Provider
         /\ resourceRows[a].ResourceID = resourceRows[b].ResourceID) => a = b

\* ------------------------------------------------------------------------
\* C16 (as stated): an execution keys off the stored state it loaded: for a
\* resource whose loaded status is already deleted it makes no Cleaner call
\* and adds nothing to the cost and carbon totals.
\* ------------------------------------------------------------------------
C16_RerunSkipsDeleted ==
    [][/\ (/\ pc = "resource"
           /\ pc' = "record"
           /\ resources[resourcesByProvider[provider][j]].Status = ResourceStatusDeleted)
          => calls' = calls
       /\ (/\ pc = "record"
           /\ pc' = "resource"
           /\ resources[resourcesByProvider[provider][j]].Status = ResourceStatusDeleted)
          => /\ output'.TotalCostSaved = output.TotalCostSaved
             /\ output'.TotalCarbonSaved = output.TotalCarbonSaved]_vars

\* ------------------------------------------------------------------------
\* Vocabulary of the server properties
\* ------------------------------------------------------------------------
\* the resource the cleanup Execute is recording a result for
RecordedResource == resources[resourcesByProvider[provider][j]]

\* the resources a cleanup has been invoked on
CleanupTargets ==
    IF pc = "idle" THEN {}
    ELSE {input.ResourceIDs[n] : n \in 1..Len(input.ResourceIDs)}

\* the tasks of a type the worker processed without error
Processed(typename) == {h \in handled : h.type = typename /\ h.err = NoError}

\* ------------------------------------------------------------------------
\* C17 (as stated): a stored resource's status becomes deleted only in the
\* step in which a non-dry-run cleanup records a successful Cleaner result
\* for that resource; no other operation moves a resource to deleted.
\* ------------------------------------------------------------------------
C17_DeletedOnlyByCleanup ==
    [][\A id \in DOMAIN resourceRows :
          (/\ resourceRows[id].Status # ResourceStatusDeleted
           /\ resourceRows'[id].Status = ResourceStatusDeleted)
          => /\ pc = "record"
             /\ ~input.DryRun
             /\ result # Nil
             /\ result[1].Success
             /\ RecordedResource.ID = id]_vars

\* ------------------------------------------------------------------------
\* C18 (as stated): once the worker has processed the scan:resources task
\* enqueued for a scan row, the scan orchestrator has run for it: the row is
\* completed or failed.
\* ------------------------------------------------------------------------
C18_ProcessedTaskFinishesScan ==
    \A h \in Processed(TaskTypeScanResources) :
        \A n \in 1..Len(scans) :
            scans[n].ID = h.origin =>
                scans[n].Status \in {ScanStatusCompleted, ScanStatusFailed}

\* ------------------------------------------------------------------------
\* C19 (as stated): once the worker has processed a policy:apply task for a
\* stored policy, a cleanup has been invoked on a resource iff the policy is
\* enabled, has the resource's provider, lists the resource's type (or lists
\* none) and its conditions match the resource.
\* ------------------------------------------------------------------------
C19_PolicyAppliesIff ==
    \A h \in Processed(TaskTypeApplyPolicy) :
        h.payload.PolicyID \in DOMAIN PolicyTable =>
            \A id \in DOMAIN resourceRows :
                id \in CleanupTargets
                    <=> Applies(PolicyTable[h.payload.PolicyID], resourceRows[id], Today)

C21_CleanerOutcomeRecorded ==
    (pc # "idle" /\ ~input.DryRun) =>
        /\ \A n \in CallsOf(CleanerOps) :
              \A m \in ResultsFor(calls[n].occ) :
                 LET res == output.Results[m] IN
                 /\ calls[n].err # NoError =>
                       /\ ~res.Success
                       /\ res.ResourceID = calls[n].id
                       /\ res.ErrorMessage = calls[n].err
                 /\ (calls[n].err = NoError /\ calls[n].ret # Nil) => res = calls[n].ret[1]
                 /\ ~res.Success =>
                       /\ \A u \in CallsOf({"Update"}) : calls[u].occ # calls[n].occ
                       /\ \A k \in 1..Len(resources) :
                             resourceOcc[k] = calls[n].occ =>
                                 resources[k] = Inventory[resources[k].ID]
        /\ output.FailureCount =
              Cardinality({m \in 1..Len(output.Results) : ~output.Results[m].Success})

\* a returned run in which one Cleaner call returned an error next to a
\* result and another returned a failed result carrying savings
C21_Witness ==
    /\ Returned
    /\ ~input.DryRun
    /\ \E n \in CallsOf(CleanerOps) :
          /\ calls[n].err # NoError
          /\ calls[n].ret # Nil
          /\ \E m \in ResultsFor(calls[n].occ) : output.Results[m].ErrorMessage = ErrCleaner
    /\ \E n \in CallsOf(CleanerOps) :
          /\ calls[n].err = NoError
          /\ calls[n].ret # Nil
          /\ ~calls[n].ret[1].Success
          /\ calls[n].ret[1].CostSaved > 0
          /\ \E m \in ResultsFor(calls[n].occ) : output.Results[m] = calls[n].ret[1]
    /\ output.FailureCount = 2

\* ------------------------------------------------------------------------
\* C22: when the Update that follows a successful remediation fails, the
\* resource's result stays successful, SuccessCount and the totals include
\* it, FailureCount does not count it, and the rest of the invocation is
\* still processed: a returned report answers every requested id.
\* ------------------------------------------------------------------------
C22_UpdateFailureNotEscalated ==
    LET successes == {m \in 1..Len(output.Results) : output.Results[m].Success} IN
    (\E u \in CallsOf({"Update"}) : calls[u].err # NoError) =>
        /\ \A u \in CallsOf({"Update"}) :
              calls[u].err # NoError =>
                  /\ ResultsFor(calls[u].occ) # {}
                  /\ \A m \in ResultsFor(calls[u].occ) : output.Results[m].Success
        /\ output.SuccessCount = Cardinality(successes)
        /\ output.FailureCount = Len(output.Results) - Cardinality(successes)
        /\ output.TotalCostSaved = SumCostSaved(output.Results)
        /\ output.TotalCarbonSaved = SumCarbonSaved(output.Results)
        /\ pc \notin {"done", "panic"} => ENABLED CleanupNext
        /\ Returned =>
              \A occ \in 1..Len(input.ResourceIDs) : Cardinality(ResultsFor(occ)) = 1

\* a returned run whose first remediation succeeded with savings while its
\* Update failed, and whose second resource was remediated after that
C22_Witness ==
    /\ Returned
    /\ output.SuccessCount = 2
    /\ output.TotalCostSaved > 0
    /\ \E u \in CallsOf({"Update"}) :
          /\ calls[u].err # NoError
          /\ \E m \in ResultsFor(calls[u].occ) : output.Results[m].CostSaved > 0
          /\ \E c \in CallsOf(CleanerOps) : c > u /\ calls[c].err = NoError

\* what the call trace would hold had Execute reported to a logger or a
\* metrics sink
ObservabilityOps == {"Log", "Metric"}

\* ------------------------------------------------------------------------
\* C23 (as stated): by the time Execute returns, every Update that failed
\* after a successful remediation has been surfaced: a log or metric event
\* for that resource follows it in the invocation, or the report carries the
\* Update's error for that resource.
\* ------------------------------------------------------------------------
C23_FailedUpdateSurfaced ==
    Returned =>
        \A u \in CallsOf({"Update"}) :
            calls[u].err # NoError =>
                \/ \E n \in CallsOf(ObservabilityOps) : n > u /\ calls[n].id = calls[u].id
                \/ \E m \in ResultsFor(calls[u].occ) :
                      output.Results[m].ErrorMessage = calls[u].err

\* the ids of the resources for which an estimate call of kind op failed
FailedEstimates(op) ==
    {scanCalls[n].arg : n \in {m \in ScanCallsOf({op}) : scanCalls[m].err # NoError}}

\* the positions of rs already estimated, unused, and not in the ids failed
CountedPositions(rs, failed) ==
    {k \in 1..Len(rs) : k < est /\ rs[k].Status = ResourceStatusUnused /\ rs[k].ID \notin failed}

\* ------------------------------------------------------------------------
\* C24 (as stated): a failing cost or carbon estimate does not fail the scan,
\* and the field whose estimate failed stays at its zero value: the value
\* returned next to the error is neither stored in the resource nor added
\* to the totals.
\* ------------------------------------------------------------------------
C24_FailedEstimateLeavesZero ==
    scanPc \in {"estimate", "complete", "returned"} =>
        /\ \A k \in 1..Len(discovered) :
              /\ discovered[k].ID \in FailedEstimates("EstimateCost")
                    => discovered[k].MonthlyCost = 0
              /\ discovered[k].ID \in FailedEstimates("EstimateCarbonFootprint")
                    => discovered[k].CarbonFootprint = 0
        /\ totalSavings =
              SumMonthlyCost(discovered,
                             CountedPositions(discovered, FailedEstimates("EstimateCost")))
        /\ totalCarbon =
              SumCarbonFootprint(discovered,
                                 CountedPositions(discovered,
                                                  FailedEstimates("EstimateCarbonFootprint")))
        /\ \A n \in FailedStepCalls : scanCalls[n].op \notin {"EstimateCost", "EstimateCarbonFootprint"}

TerminalScanStatuses == {ScanStatusCompleted, ScanStatusFailed, ScanStatusCancelled}

\* ------------------------------------------------------------------------
\* C25 (as stated): a Scan whose status is completed, failed or cancelled is
\* left unchanged by Start, Complete and Fail: status, counts, totals, error
\* message and timestamps stay as they are.
\* ------------------------------------------------------------------------
C25_TerminalScanImmutable ==
    [][(scan # Nil /\ scan[1].Status \in TerminalScanStatuses) => scan' = scan]_vars

\* ------------------------------------------------------------------------
\* C26 (as stated): once an external request has set the stored status of an
\* in-flight scan to cancelled, no write of Execute replaces it: the stored
\* status stays cancelled.
\* ------------------------------------------------------------------------
C26_CancelledNotOverwritten ==
    [][(scanRow # Nil /\ scanRow[1].Status = ScanStatusCancelled)
          => scanRow'[1].Status = ScanStatusCancelled]_vars

\* ------------------------------------------------------------------------
\* C28 (as stated): a cleanup invoked for an organization calls a Cleaner
\* only on resources of that organization, and only rows of that
\* organization are marked deleted by it.
\* ------------------------------------------------------------------------
C28_TenantBoundary ==
    /\ \A n \in CallsOf(CleanerOps) :
          Inventory[calls[n].id].OrganizationID = input.OrganizationID
    /\ \A id \in DOMAIN resourceRows :
          resourceRows[id] # Inventory[id] =>
              resourceRows[id].OrganizationID = input.OrganizationID

\* ------------------------------------------------------------------------
\* C29 (as stated): within one invocation no resource is the subject of two
\* Cleaner calls, and no resource has two successful results in the report
\* (so none is counted twice in SuccessCount and TotalCostSaved), whatever
\* the ids requested.
\* ------------------------------------------------------------------------
C29_OncePerResource ==
    /\ \A a, b \in CallsOf(CleanerOps) : calls[a].id = calls[b].id => a = b
    /\ \A m, n \in 1..Len(output.Results) :
          (/\ output.Results[m].Success
           /\ output.Results[n].Success
           /\ output.Results[m].ResourceID = output.Results[n].ResourceID) => m = n

\* ------------------------------------------------------------------------
\* C30 (as stated): when the scan Execute has returned an error, whatever
\* the failing step, BulkCreate has written none of the scan's resources:
\* the resource table is as it was before the scan.
\* ------------------------------------------------------------------------
C30_ErrorMeansNothingWritten ==
    (ScanReturned /\ scanRet.err # NoError) =>
        /\ resourceRows = Inventory
        /\ \A n \in ScanCallsOf({"BulkCreate"}) :
              scanCalls[n].err = NoError => scanCalls[n].arg = <<>>

\* the two concurrent executions, each as its request, report, position and
\* call trace
Executions ==
    {[input |-> input, output |-> output, pc |-> pc, calls |-> calls],
     [input |-> peer.input, output |-> peer.output, pc |-> peer.pc, calls |-> peer.calls]}

\* the calls of execution x on one of ops
CallsIn(x, ops) == {n \in 1..Len(x.calls) : x.calls[n].op \in ops}

\* ------------------------------------------------------------------------
\* C27: nothing in one cleanup execution excludes a concurrent one from the
\* same resource. Whatever the other execution has done, a lookup of an
\* existing resource is refused only by a store failure; where both stand
\* before their Cleaner call for the same resource both calls can be made;
\* and an execution that returned after resolving the resource and getting
\* a Cleaner made exactly one Cleaner call on it and, when that call
\* returned a successful result, reports that result with its savings.
\* ------------------------------------------------------------------------
C27_NoMutualExclusion ==
    /\ \A x \in Executions : \A n \in CallsIn(x, {"GetByID"}) :
          x.calls[n].id \in DOMAIN Inventory => x.calls[n].err \in {NoError, ErrDatabase}
    /\ (pc = "resource" /\ peer.pc = "resource" /\ FirstHolds(peer.resources[1].ID))
          => (ENABLED DispatchAction /\ ENABLED PeerDispatchAction)
    /\ \A x \in Executions :
          (/\ x.pc = "done"
           /\ CleanerMethod(x.input.Action) # "none"
           /\ \E n \in CallsIn(x, {"Create"}) : x.calls[n].err = NoError)
          => /\ Cardinality(CallsIn(x, CleanerOps)) = 1
             /\ \A n \in CallsIn(x, CleanerOps) :
                   /\ x.calls[n].id = x.input.ResourceIDs[1]
                   /\ (x.calls[n].err = NoError /\ x.calls[n].ret[1].Success) =>
                         /\ x.output.Results = <<x.calls[n].ret[1]>>
                         /\ x.output.SuccessCount = 1
                         /\ x.output.TotalCostSaved = x.calls[n].ret[1].CostSaved
                         /\ x.output.TotalCarbonSaved = x.calls[n].ret[1].CarbonSaved

\* both executions returned a report with one successful result for the
\* same resource carrying its savings, each after its own Cleaner call, the
\* second execution's call made while the first held the resource
C27_Witness ==
    /\ pc = "done"
    /\ peer.pc = "done"
    /\ Len(input.ResourceIDs) = 1
    /\ peer.overlapped
    /\ \A x \in Executions :
          /\ \E n \in CallsIn(x, {"GetByID"}) : x.calls[n].err = NoError
          /\ \E n \in CallsIn(x, CleanerOps) : x.calls[n].id = input.ResourceIDs[1]
          /\ x.output.SuccessCount = 1
          /\ x.output.Results[1].ResourceID = input.ResourceIDs[1]
          /\ x.output.Results[1].Success
          /\ x.output.TotalCostSaved = Inventory[input.ResourceIDs[1]].MonthlyCost

====
